---- MODULE Spec2Model ----
(***************************************************************************)
(* A model of the Generic Linked List library (src/src/gll.c): one list,   *)
(* its node heap, the list's recursive mutex, iterators with their plain   *)
(* mutexes, and threads that call the library.  Every thread has a call    *)
(* stack; a library function is a frame that moves through program         *)
(* points.  A function body that runs with the list mutex held and makes   *)
(* no call is one step; calls, lock and unlock operations are steps of     *)
(* their own.                                                              *)
(***************************************************************************)
EXTENDS Integers, Sequences, FiniteSets, TLC

\* ------------------------------------------------------------------ bounds
MaxNodes == 5          \* node addresses
SeqNodes == 4          \* nodes the allocator hands out where calls are unbounded
MaxVal == 1            \* stored values are 0..MaxVal
MaxCalls == 2          \* calls a thread makes where its calls are counted
SizeBits == 3          \* width of gll_size_t and gll_index_t in the model
CmpBits == 3           \* width of int32_t in the model; gll_data_t has twice it

NULL == 0
Nodes == 1..MaxNodes
Values == 0..MaxVal
Threads == {1, 2}
\* appends of thread t in the concurrent-append scenario: together they use
\* every node address
AppCount(t) == (MaxNodes + t - 1) \div 2
SizeMod == 2 ^ SizeBits
\* one iterator shared by the threads; PrivIt(t) is the iterator a library
\* function of thread t creates for itself
SharedIts == {100}
\* internal steps made on the iterator the callers share
PrivItShared(t) == 100
PrivIt(t) == t
Iters == SharedIts \cup Threads

VARIABLES
    head, tail, size,     \* gll_list_t fields
    data, next, prev,     \* gll_node_t fields, by node address
    live,                 \* the addresses calloc has handed out and free has not taken back
    lmtx,                 \* the list's recursive mutex: [owner, count]
    imtx,                 \* each iterator's plain mutex: the owner or 0
    icur,                 \* each iterator's current
    stk,                  \* each thread's call stack
    ret,                  \* each thread's last returned [st, out]
    budget,               \* calls a thread may still make (-1: no limit)
    obs,                  \* each thread's current or last top-level call
    track,                \* whether obs records the list contents at a call
    cap,                  \* how many node addresses the allocator has
    deallocator,          \* list->deallocator is set (not NULL)
    crashed,              \* the process died (a NULL dereference, an abort)
    uaf                   \* some step dereferenced a freed node

listv == <<head, tail, size>>
heapv == <<data, next, prev, live>>
lockv == <<lmtx, imtx>>
vars == <<head, tail, size, data, next, prev, live, lmtx, imtx, icur, stk, ret,
          budget, obs, track, cap, deallocator, crashed, uaf>>

\* the node addresses met following the link f from n, at most k of them
RECURSIVE WalkIn(_, _, _)
WalkIn(f, n, k) ==
    IF n = NULL \/ k = 0 THEN <<>> ELSE <<n>> \o WalkIn(f, f[n], k - 1)

Chain == WalkIn(next, head, MaxNodes + 1)
ChainBack == WalkIn(prev, tail, MaxNodes + 1)
Range(s) == {s[k] : k \in 1..Len(s)}
Elems == [k \in 1..Len(Chain) |-> data[Chain[k]]]
Reverse(s) == [k \in 1..Len(s) |-> s[Len(s) + 1 - k]]

\* ------------------------------------------------------------- call stacks
Idle(t) == stk[t] = <<>>
Top(t) == stk[t][Len(stk[t])]
At(t, fn, pc) == ~crashed /\ ~Idle(t) /\ Top(t).fn = fn /\ Top(t).pc = pc
HeldL(t) == IF lmtx.owner = t THEN lmtx.count ELSE 0
HeldI(t) == {i \in Iters : imtx[i] = t}

Frame(t, fn, pc, idx, val, it, bwd) ==
    [fn |-> fn, pc |-> pc, idx |-> idx, val |-> val, it |-> it, bwd |-> bwd,
     i |-> 0, n |-> NULL, loc |-> NULL, rv |-> 0, out |-> 0, rs |-> 0,
     el |-> HeldL(t), ei |-> HeldI(t)]

SetTop(t, f) == [stk EXCEPT ![t] = [@ EXCEPT ![Len(@)] = f]]
Goto(t, pc) == SetTop(t, [Top(t) EXCEPT !.pc = pc])
\* a return that skips the unlock
LeaveLocked(t, rv) == SetTop(t, [Top(t) EXCEPT !.pc = "ret", !.rv = rv])
\* leave the body towards the unlock with the value to return
Leave(t, rv) == SetTop(t, [Top(t) EXCEPT !.pc = "unlock", !.rv = rv])
LeaveOut(t, rv, out) ==
    SetTop(t, [Top(t) EXCEPT !.pc = "unlock", !.rv = rv, !.out = out])
\* a call: the caller's frame becomes g (its continuation), the callee's is f
CallFn(t, g, f) ==
    [stk EXCEPT ![t] = Append([@ EXCEPT ![Len(@)] = g], f)]

\* allocations promised to calls that have not allocated yet
Reserved == Cardinality({t \in Threads : ~Idle(t) /\ stk[t][1].rs = 1})
\* calloc: any address the allocator has that is not in use
FreeAddrs == (1..cap) \ live
CanAlloc == Cardinality(live) + Reserved < cap
Unreserve(s) == [s EXCEPT ![1].rs = 0]

\* the first program point of a function after it holds the list mutex
Body0(fn) ==
    CASE fn = "append" -> "a1"
      [] fn = "push" -> "p1"
      [] OTHER -> "body"

\* ------------------------------------------------------------------ mutexes
\* mtx_lock on the list's recursive mutex: free, or held by the caller
\* a mutex that never blocks
ListLockNever(t) == TRUE
ListLockFree(t) == lmtx.owner \in {0, t}

\* GLL_MUTEX_LOCK(list)
LockList(t) ==
    /\ ~crashed /\ ~Idle(t) /\ Top(t).pc = "lock"
    /\ ListLockFree(t)
    /\ lmtx' = [owner |-> t, count |-> HeldL(t) + 1]
    /\ stk' = Goto(t, Body0(Top(t).fn))
    /\ UNCHANGED <<listv, heapv, imtx, icur, ret, budget, obs, track, cap, deallocator, crashed, uaf>>

IsIterFn(fn) == fn \in {"forward", "backward"}

\* GLL_MUTEX_UNLOCK(list)
UnlockList(t) ==
    /\ ~crashed /\ ~Idle(t) /\ Top(t).pc = "unlock"
    /\ lmtx' = IF lmtx.owner = t
               THEN (IF lmtx.count = 1 THEN [owner |-> 0, count |-> 0]
                     ELSE [owner |-> t, count |-> lmtx.count - 1])
               ELSE lmtx
    /\ stk' = Goto(t, IF IsIterFn(Top(t).fn) THEN "iunlock" ELSE "ret")
    /\ UNCHANGED <<listv, heapv, imtx, icur, ret, budget, obs, track, cap, deallocator, crashed, uaf>>

\* what obs and ret hold while no call is under way
NoObs == [op |-> "none", idx |-> 0, val |-> 0, pre |-> <<>>, psize |-> 0,
          phead |-> NULL, ptail |-> NULL]
NoRet == [st |-> 0, out |-> 0]

\* a function returns: its frame is popped and the caller sees [st, out]
Return(t) ==
    /\ ~crashed /\ ~Idle(t) /\ Top(t).pc = "ret"
    /\ stk' = [stk EXCEPT ![t] = SubSeq(@, 1, Len(@) - 1)]
    /\ ret' = [ret EXCEPT ![t] = IF Len(stk[t]) = 1 THEN NoRet
                                  ELSE [st |-> Top(t).rv, out |-> Top(t).out]]
    /\ obs' = IF Len(stk[t]) = 1 THEN [obs EXCEPT ![t] = NoObs] ELSE obs
    /\ UNCHANGED <<listv, heapv, lockv, icur, budget, track, cap, deallocator, crashed, uaf>>

\* ------------------------------------------------------------------- append
\* an insertion that leaves size as it was
SizeIncNone(sz) == sz
\* list->size++, lines 157, 184 and 687
SizeInc(sz) == (sz + 1) % SizeMod

\* gll_append, lines 140-144: the node, the old tail, list->tail = node
AppendA1(t) ==
    /\ At(t, "append", "a1")
    /\ \E n \in FreeAddrs :
        /\ live' = live \cup {n}
        /\ data' = [data EXCEPT ![n] = Top(t).val]
        /\ next' = [next EXCEPT ![n] = NULL]
        /\ prev' = [prev EXCEPT ![n] = NULL]
        /\ tail' = n
        /\ stk' = [SetTop(t, [Top(t) EXCEPT !.pc = "a2", !.n = n, !.loc = tail])
                     EXCEPT ![t] = Unreserve(@)]
    /\ UNCHANGED <<head, size, lockv, icur, ret, budget, obs, track, cap, deallocator, crashed, uaf>>

\* gll_append, lines 146-157: link the node behind the old tail, size++
AppendA2(t) ==
    /\ At(t, "append", "a2")
    /\ LET n == Top(t).n
           old == Top(t).loc
       IN IF head # NULL /\ old = NULL
          THEN /\ crashed' = TRUE
               /\ UNCHANGED <<listv, heapv, stk, uaf>>
          ELSE /\ head' = IF head # NULL THEN head ELSE n
               /\ next' = IF head # NULL /\ old \in live
                          THEN [next EXCEPT ![old] = n] ELSE next
               /\ prev' = [prev EXCEPT ![n] = old]
               /\ size' = SizeInc(size)
               /\ uaf' = (uaf \/ (head # NULL /\ old \notin live))
               /\ stk' = Leave(t, 0)
               /\ UNCHANGED <<tail, data, live, crashed>>
    /\ UNCHANGED <<lockv, icur, ret, budget, obs, track, cap, deallocator>>

\* --------------------------------------------------------- freed memory
\* What a read through a node pointer yields: the field of a live node; any
\* value at all of a freed one (the allocator may have reused or scribbled it).
\* A wild pointer behaves as a pointer to freed memory, so the addresses the
\* allocator hands out stand for all of them.
RdPtr(f, a) == IF a \in live THEN {f[a]} ELSE 0..cap
RdData(a) == IF a \in live THEN {data[a]} ELSE Values
\* A write through a node pointer: it lands in a live node, and in freed
\* memory it is lost (calloc zeroes the node before its next use).
Wr(f, a, v) == IF a \in live THEN [f EXCEPT ![a] = v] ELSE f
\* free(node): the address goes back to the allocator
Zero(f, a) == [f EXCEPT ![a] = 0]

\* --------------------------------------------------------------------- push
\* gll_push, lines 167-171: the node, the old head, list->head = node
PushP1(t) ==
    /\ At(t, "push", "p1")
    /\ \E n \in FreeAddrs :
        /\ live' = live \cup {n}
        /\ data' = [data EXCEPT ![n] = Top(t).val]
        /\ next' = [next EXCEPT ![n] = NULL]
        /\ prev' = [prev EXCEPT ![n] = NULL]
        /\ head' = n
        /\ stk' = [SetTop(t, [Top(t) EXCEPT !.pc = "p2", !.n = n, !.loc = head])
                     EXCEPT ![t] = Unreserve(@)]
    /\ UNCHANGED <<tail, size, lockv, icur, ret, budget, obs, track, cap, deallocator, crashed, uaf>>

\* gll_push, lines 173-184: link the node before the old head, size++
PushP2(t) ==
    /\ At(t, "push", "p2")
    /\ LET n == Top(t).n
           old == Top(t).loc
       IN IF tail # NULL /\ old = NULL
          THEN /\ crashed' = TRUE
               /\ UNCHANGED <<listv, heapv, stk, uaf>>
          ELSE /\ tail' = IF tail # NULL THEN tail ELSE n
               /\ prev' = IF tail # NULL /\ old \in live
                          THEN [prev EXCEPT ![old] = n] ELSE prev
               /\ next' = [next EXCEPT ![n] = old]
               /\ size' = SizeInc(size)
               /\ uaf' = (uaf \/ (tail # NULL /\ old \notin live))
               /\ stk' = Leave(t, 0)
               /\ UNCHANGED <<head, data, live, crashed>>
    /\ UNCHANGED <<lockv, icur, ret, budget, obs, track, cap, deallocator>>

\* ---------------------------------------------------------------- pop, trim
\* a removal that leaves size as it was
SizeDecNone(sz) == sz
\* list->size--, lines 219, 256 and 721
SizeDec(sz) == (sz + SizeMod - 1) % SizeMod

\* free(node) of a node that is not live is a double free: the allocator
\* aborts the process or goes on
FreeNode(t, node, d, h, tl, pv, nx, stray) ==
    IF node \in live
    THEN /\ live' = live \ {node}
         /\ data' = Zero(data, node)
         /\ next' = Zero(nx, node)
         /\ prev' = Zero(pv, node)
         /\ head' = h /\ tail' = tl
         /\ size' = SizeDec(size)
         /\ stk' = Leave(t, d)
         /\ uaf' = (uaf \/ stray)
         /\ UNCHANGED crashed
    ELSE \/ /\ crashed' = TRUE
            /\ uaf' = TRUE
            /\ UNCHANGED <<listv, heapv, stk>>
         \/ /\ head' = h /\ tail' = tl
            /\ next' = nx /\ prev' = pv
            /\ size' = SizeDec(size)
            /\ uaf' = TRUE
            /\ stk' = Leave(t, d)
            /\ UNCHANGED <<data, live, crashed>>

\* gll_pop, lines 194-221
PopBody(t) ==
    /\ At(t, "pop", "body")
    /\ IF head = NULL
       THEN /\ stk' = Leave(t, 0)
            /\ UNCHANGED <<listv, heapv, crashed, uaf>>
       ELSE \E d \in RdData(head), nx \in RdPtr(next, head) :
              LET h == IF head = tail THEN NULL ELSE nx
                  tl == IF head = tail THEN NULL ELSE tail
              IN FreeNode(t, head, d, h, tl,
                          IF h # NULL THEN Wr(prev, h, NULL) ELSE prev, next,
                          h # NULL /\ h \notin live)
    /\ UNCHANGED <<lockv, icur, ret, budget, obs, track, cap, deallocator>>

\* gll_trim, lines 231-258
TrimBody(t) ==
    /\ At(t, "trim", "body")
    /\ IF tail = NULL
       THEN /\ stk' = Leave(t, 0)
            /\ UNCHANGED <<listv, heapv, crashed, uaf>>
       ELSE \E d \in RdData(tail), pv \in RdPtr(prev, tail) :
              LET h == IF head = tail THEN NULL ELSE head
                  tl == IF head = tail THEN NULL ELSE pv
              IN FreeNode(t, tail, d, h, tl, prev,
                          IF tl # NULL THEN Wr(next, tl, NULL) ELSE next,
                          tl # NULL /\ tl \notin live)
    /\ UNCHANGED <<lockv, icur, ret, budget, obs, track, cap, deallocator>>

\* ------------------------------------------------------ size, peek, peek_last
\* gll_size, line 268
SizeBody(t) ==
    /\ At(t, "size", "body")
    /\ stk' = Leave(t, size)
    /\ UNCHANGED <<listv, heapv, lockv, icur, ret, budget, obs, track, cap, deallocator, crashed, uaf>>

\* a peek that reports 1 on the empty list
PeekDataOne(node) == IF node = NULL THEN {1} ELSE RdData(node)
\* node ? node->data : 0, lines 280 and 292
PeekData(node) == IF node = NULL THEN {0} ELSE RdData(node)

\* gll_peek, lines 279-280
PeekBody(t) ==
    /\ At(t, "peek", "body")
    /\ \E d \in PeekData(head) :
         stk' = Leave(t, d)
    /\ uaf' = (uaf \/ (head # NULL /\ head \notin live))
    /\ UNCHANGED <<listv, heapv, lockv, icur, ret, budget, obs, track, cap, deallocator, crashed>>

\* gll_peek_last, lines 291-292
PeekLastBody(t) ==
    /\ At(t, "peek_last", "body")
    /\ \E d \in PeekData(tail) :
         stk' = Leave(t, d)
    /\ uaf' = (uaf \/ (tail # NULL /\ tail \notin live))
    /\ UNCHANGED <<listv, heapv, lockv, icur, ret, budget, obs, track, cap, deallocator, crashed>>

\* ---------------------------------------------------------------- iterators
\* GLL_MUTEX_LOCK(iterator): a plain mutex, taken only when free
IterLockFree(t, it) == imtx[it] = 0

LockIter(t) ==
    /\ ~crashed /\ ~Idle(t) /\ Top(t).pc = "ilock"
    /\ IterLockFree(t, Top(t).it)
    /\ imtx' = [imtx EXCEPT ![Top(t).it] = t]
    /\ stk' = Goto(t, IF IsIterFn(Top(t).fn) THEN "lock" ELSE "body")
    /\ UNCHANGED <<listv, heapv, lmtx, icur, ret, budget, obs, track, cap, deallocator, crashed, uaf>>

\* GLL_MUTEX_UNLOCK(iterator)
UnlockIter(t) ==
    /\ ~crashed /\ ~Idle(t) /\ Top(t).pc = "iunlock"
    /\ imtx' = [imtx EXCEPT ![Top(t).it] = IF @ = t THEN 0 ELSE @]
    /\ stk' = Goto(t, "ret")
    /\ UNCHANGED <<listv, heapv, lmtx, icur, ret, budget, obs, track, cap, deallocator, crashed, uaf>>

\* the iterator moves to node c and reports its data; c = NULL is a NULL
\* dereference
IterMoveTo(t, it, c, stale) ==
    IF c = NULL
    THEN /\ crashed' = TRUE
         /\ UNCHANGED <<icur, stk, uaf>>
    ELSE /\ \E d \in RdData(c) : stk' = LeaveOut(t, 1, d)
         /\ icur' = [icur EXCEPT ![it] = c]
         /\ uaf' = (uaf \/ stale \/ c \notin live)
         /\ UNCHANGED crashed

\* a walk that starts over after the last node
ForwardEndNull(cur) == NULL
\* lines 515-521: no next node, iterator->current is left where it is
ForwardEnd(cur) == cur

\* gll_iterator_forward, lines 498-527
ForwardBody(t) ==
    /\ At(t, "forward", "body")
    /\ LET it == Top(t).it
           cur == icur[it]
       IN IF size = 0
          THEN /\ icur' = [icur EXCEPT ![it] = NULL]
               /\ stk' = Leave(t, 0)
               /\ UNCHANGED <<crashed, uaf>>
          ELSE IF cur = NULL
          THEN IterMoveTo(t, it, head, FALSE)
          ELSE \E nx \in RdPtr(next, cur) :
                 IF nx # NULL
                 THEN IterMoveTo(t, it, nx, cur \notin live)
                 ELSE /\ stk' = LeaveOut(t, 0, 0)
                      /\ uaf' = (uaf \/ cur \notin live)
                      /\ icur' = [icur EXCEPT ![it] = ForwardEnd(cur)]
                      /\ UNCHANGED crashed
    /\ UNCHANGED <<listv, heapv, lockv, ret, budget, obs, track, cap, deallocator>>

\* a walk that starts over before the first node
BackwardEndNull(cur) == NULL
\* lines 553-559: no previous node, iterator->current is left where it is
BackwardEnd(cur) == cur

\* gll_iterator_backward, lines 536-565
BackwardBody(t) ==
    /\ At(t, "backward", "body")
    /\ LET it == Top(t).it
           cur == icur[it]
       IN IF size = 0
          THEN /\ icur' = [icur EXCEPT ![it] = NULL]
               /\ stk' = Leave(t, 0)
               /\ UNCHANGED <<crashed, uaf>>
          ELSE IF cur = NULL
          THEN IterMoveTo(t, it, tail, FALSE)
          ELSE \E pv \in RdPtr(prev, cur) :
                 IF pv # NULL
                 THEN IterMoveTo(t, it, pv, cur \notin live)
                 ELSE /\ stk' = LeaveOut(t, 0, 0)
                      /\ uaf' = (uaf \/ cur \notin live)
                      /\ icur' = [icur EXCEPT ![it] = BackwardEnd(cur)]
                      /\ UNCHANGED crashed
    /\ UNCHANGED <<listv, heapv, lockv, ret, budget, obs, track, cap, deallocator>>

\* a reset that leaves the cursor where it is
ResetToSame(cur) == cur
\* iterator->current = NULL, line 573
ResetTo(cur) == NULL

\* gll_iterator_reset, line 573
ResetBody(t) ==
    /\ At(t, "reset", "body")
    /\ icur' = [icur EXCEPT ![Top(t).it] = ResetTo(icur[Top(t).it])]
    /\ stk' = SetTop(t, [Top(t) EXCEPT !.pc = "iunlock", !.rv = 0])
    /\ UNCHANGED <<listv, heapv, lockv, ret, budget, obs, track, cap, deallocator, crashed, uaf>>

\* ------------------------------------------------- _gll_insert, _gll_remove
IsWalkFn(fn) == fn \in {"_gll_insert", "_gll_remove"}

\* lines 666-676 (697-707): gll_iterator_create and the loop counter
WalkInit(t) ==
    /\ ~crashed /\ ~Idle(t) /\ IsWalkFn(Top(t).fn) /\ Top(t).pc = "w_init"
    /\ icur' = [icur EXCEPT ![PrivIt(t)] = NULL]
    /\ stk' = SetTop(t, [Top(t) EXCEPT
                 !.pc = "w_loop", !.it = PrivIt(t),
                 !.i = IF Top(t).bwd THEN (size + SizeMod - 1) % SizeMod ELSE 0])
    /\ UNCHANGED <<listv, heapv, lockv, ret, budget, obs, track, cap, deallocator, crashed, uaf>>

\* an index test that stops one step early
WalkGoStrict(bwd, index, i) == IF bwd THEN index < i ELSE index > i
\* the index test of the loops, lines 672 and 677 (703 and 708)
WalkGo(bwd, index, i) == IF bwd THEN index <= i ELSE index >= i

\* the branches with the two halves exchanged
FromTailFlipped(index, sz) == sz \div 2 >= index
\* lines 352-361 (390-399): the walk is backward, from the tail, unless
\* size/2 >= index
FromTail(index, sz) == ~(sz \div 2 >= index)

\* the loop condition of lines 672 and 677 (703 and 708): the index test with
\* its post-decrement or post-increment, then the iterator step; n counts
\* the iterator steps the loop has made
WalkLoop(t) ==
    /\ ~crashed /\ ~Idle(t) /\ IsWalkFn(Top(t).fn) /\ Top(t).pc = "w_loop"
    /\ LET f == Top(t)
           go == WalkGo(f.bwd, f.idx, f.i)
           i2 == IF f.bwd THEN (f.i + SizeMod - 1) % SizeMod ELSE (f.i + 1) % SizeMod
           g == [f EXCEPT !.i = i2, !.n = IF go THEN @ + 1 ELSE @]
       IN stk' = IF go
                 THEN CallFn(t, [g EXCEPT !.pc = "w_test"],
                        Frame(t, IF f.bwd THEN "backward" ELSE "forward", "ilock",
                              0, 0, f.it, FALSE))
                 ELSE SetTop(t, [g EXCEPT !.pc = "w_done"])
    /\ UNCHANGED <<listv, heapv, lockv, icur, ret, budget, obs, track, cap, deallocator, crashed, uaf>>

\* the iterator step returned: 0 ends the loop
WalkTest(t) ==
    /\ ~crashed /\ ~Idle(t) /\ IsWalkFn(Top(t).fn) /\ Top(t).pc = "w_test"
    /\ stk' = Goto(t, IF ret[t].st # 0 THEN "w_loop" ELSE "w_done")
    /\ UNCHANGED <<listv, heapv, lockv, icur, ret, budget, obs, track, cap, deallocator, crashed, uaf>>

\* _gll_insert, lines 680-691: the new node goes before iterator->current
InsertSplice(t) ==
    /\ At(t, "_gll_insert", "w_done")
    /\ LET cur == icur[Top(t).it]
       IN IF cur = NULL
          THEN /\ crashed' = TRUE
               /\ UNCHANGED <<size, heapv, icur, stk, uaf>>
          ELSE \E n \in FreeAddrs, pv \in RdPtr(prev, cur) :
                 IF pv = NULL
                 THEN /\ crashed' = TRUE
                      /\ UNCHANGED <<size, heapv, icur, stk, uaf>>
                 ELSE /\ live' = live \cup {n}
                      /\ data' = [data EXCEPT ![n] = Top(t).val]
                      /\ next' = [[next EXCEPT ![n] = cur] EXCEPT
                                    ![pv] = IF pv \in live \/ pv = n THEN n ELSE @]
                      /\ prev' = [[prev EXCEPT ![n] = pv] EXCEPT
                                    ![cur] = IF cur \in live \/ cur = n THEN n ELSE @]
                      /\ size' = SizeInc(size)
                      /\ icur' = [icur EXCEPT ![Top(t).it] = NULL]
                      /\ uaf' = (uaf \/ cur \notin live \/ pv \notin live)
                      /\ stk' = [SetTop(t, [Top(t) EXCEPT !.pc = "ret", !.rv = 0])
                                   EXCEPT ![t] = Unreserve(@)]
                      /\ UNCHANGED crashed
    /\ UNCHANGED <<head, tail, lockv, ret, budget, obs, track, cap, deallocator>>

\* _gll_remove, lines 711-728: unlink iterator->current and free it
RemoveUnlink(t) ==
    /\ At(t, "_gll_remove", "w_done")
    /\ LET cur == icur[Top(t).it]
       IN IF cur = NULL
          THEN /\ crashed' = TRUE
               /\ UNCHANGED <<size, heapv, icur, stk, uaf>>
          ELSE \E pv \in RdPtr(prev, cur), nx \in RdPtr(next, cur), d \in RdData(cur) :
                 LET nx1 == IF pv # NULL THEN Wr(next, pv, nx) ELSE next
                     pv1 == IF nx # NULL THEN Wr(prev, nx, pv) ELSE prev
                     stray == \/ (pv # NULL /\ pv \notin live)
                              \/ (nx # NULL /\ nx \notin live)
                     done == SetTop(t, [Top(t) EXCEPT !.pc = "ret", !.rv = d])
                 IN IF cur \in live
                    THEN /\ live' = live \ {cur}
                         /\ data' = Zero(data, cur)
                         /\ next' = Zero(nx1, cur)
                         /\ prev' = Zero(pv1, cur)
                         /\ size' = SizeDec(size)
                         /\ icur' = [icur EXCEPT ![Top(t).it] = NULL]
                         /\ uaf' = (uaf \/ stray)
                         /\ stk' = done
                         /\ UNCHANGED crashed
                    ELSE \/ /\ crashed' = TRUE
                            /\ uaf' = TRUE
                            /\ UNCHANGED <<size, heapv, icur, stk>>
                         \/ /\ next' = nx1 /\ prev' = pv1
                            /\ size' = SizeDec(size)
                            /\ icur' = [icur EXCEPT ![Top(t).it] = NULL]
                            /\ uaf' = TRUE
                            /\ stk' = done
                            /\ UNCHANGED <<data, live, crashed>>
    /\ UNCHANGED <<head, tail, lockv, ret, budget, obs, track, cap, deallocator>>

\* ------------------------------------------------------------------- insert
\* the branches without the index = size case
InsertBranchNoAppend(index, sz) ==
    IF index = 0 THEN "push"
    ELSE IF sz \div 2 >= index THEN "fwd"
    ELSE "bwd"

\* the branch gll_insert takes, lines 342-361
InsertBranch(index, sz) ==
    IF index = 0 THEN "push"
    ELSE IF index = sz THEN "append"
    ELSE IF FromTail(index, sz) THEN "bwd"
    ELSE "fwd"

\* a range check that lets every index through
InsertInvalidNever(index, sz) == FALSE
\* index > list->size, line 334
InsertInvalid(index, sz) == index > sz

\* gll_insert, lines 334-361: the range check and the call of the branch
InsertBody(t) ==
    /\ At(t, "insert", "body")
    /\ LET f == Top(t)
           b == InsertBranch(f.idx, size)
           g == [f EXCEPT !.pc = "after"]
       IN stk' = IF InsertInvalid(f.idx, size)
                 THEN Leave(t, -1)
                 ELSE IF b \in {"push", "append"}
                 THEN CallFn(t, g, Frame(t, b, "lock", 0, f.val, 0, FALSE))
                 ELSE CallFn(t, g, Frame(t, "_gll_insert", "w_init", f.idx, f.val,
                                         0, b = "bwd"))
    /\ UNCHANGED <<listv, heapv, lockv, icur, ret, budget, obs, track, cap, deallocator, crashed, uaf>>

\* gll_insert, line 363, and gll_remove, line 401: the callee's result is
\* the result
AfterCall(t) ==
    /\ ~crashed /\ ~Idle(t) /\ Top(t).fn \in {"insert", "remove"}
    /\ Top(t).pc = "after"
    /\ stk' = Leave(t, ret[t].st)
    /\ UNCHANGED <<listv, heapv, lockv, icur, ret, budget, obs, track, cap, deallocator, crashed, uaf>>

\* ------------------------------------------------------------------- remove
\* the branches without the index = size - 1 case
RemoveBranchNoTrim(index, sz) ==
    IF index = 0 THEN "pop"
    ELSE IF sz \div 2 >= index THEN "fwd"
    ELSE "bwd"

\* the branch gll_remove takes, lines 380-399
RemoveBranch(index, sz) ==
    IF index = 0 THEN "pop"
    ELSE IF index = (sz + SizeMod - 1) % SizeMod THEN "trim"
    ELSE IF FromTail(index, sz) THEN "bwd"
    ELSE "fwd"

\* the value gll_remove returns for an index out of range, line 375: -1
\* converted to gll_data_t, the all-ones word, written -1 here
RemoveInvalid == -1

\* gll_remove, lines 372-399
RemoveBody(t) ==
    /\ At(t, "remove", "body")
    /\ LET f == Top(t)
           b == RemoveBranch(f.idx, size)
           g == [f EXCEPT !.pc = "after"]
       IN stk' = IF f.idx >= size
                 THEN Leave(t, RemoveInvalid)
                 ELSE IF b \in {"pop", "trim"}
                 THEN CallFn(t, g, Frame(t, b, "lock", 0, 0, 0, FALSE))
                 ELSE CallFn(t, g, Frame(t, "_gll_remove", "w_init", f.idx, 0,
                                         0, b = "bwd"))
    /\ UNCHANGED <<listv, heapv, lockv, icur, ret, budget, obs, track, cap, deallocator, crashed, uaf>>

\* --------------------------------------------------------------------- find
\* _gll_comparator_data, lines 652-661: the list is created without a cfg
Comparator(d1, d2) == IF d1 > d2 THEN 1 ELSE IF d1 < d2 THEN -1 ELSE 0

\* gll_find, lines 303-312
FindBody(t) ==
    /\ At(t, "find", "body")
    /\ IF head = NULL
       THEN /\ stk' = Leave(t, 0)
            /\ UNCHANGED icur
       ELSE /\ icur' = [icur EXCEPT ![PrivIt(t)] = NULL]
            /\ stk' = SetTop(t, [Top(t) EXCEPT !.pc = "f_loop", !.it = PrivIt(t), !.i = 0])
    /\ UNCHANGED <<listv, heapv, lockv, ret, budget, obs, track, cap, deallocator, crashed, uaf>>

\* gll_find, line 313: the iterator step of the loop
FindLoop(t) ==
    /\ At(t, "find", "f_loop")
    /\ stk' = CallFn(t, [Top(t) EXCEPT !.pc = "f_test"],
                     Frame(t, "forward", "ilock", 0, 0, Top(t).it, FALSE))
    /\ UNCHANGED <<listv, heapv, lockv, icur, ret, budget, obs, track, cap, deallocator, crashed, uaf>>

\* a loop that forgets index++
IndexStay(i) == i
\* index++, line 320
IndexInc(i) == (i + 1) % SizeMod

\* gll_find, lines 313-323: the comparison, index++, the iterator's end
FindTest(t) ==
    /\ At(t, "find", "f_test")
    /\ LET f == Top(t)
       IN IF ret[t].st # 0 /\ Comparator(f.val, ret[t].out) # 0
          THEN /\ stk' = SetTop(t, [f EXCEPT !.pc = "f_loop", !.i = IndexInc(f.i)])
               /\ UNCHANGED icur
          ELSE /\ stk' = Leave(t, f.i)
               /\ icur' = [icur EXCEPT ![f.it] = NULL]
    /\ UNCHANGED <<listv, heapv, lockv, ret, budget, obs, track, cap, deallocator, crashed, uaf>>

\* --------------------------------------------------------------------- sort
\* _gll_split_list, lines 733-745: the slow and fast pointers
RECURSIVE SplitLoop(_, _, _)
SplitLoop(nx, slow, fast) ==
    IF fast = NULL THEN slow
    ELSE IF nx[fast] # NULL THEN SplitLoop(nx, nx[slow], nx[nx[fast]])
    ELSE slow

\* _gll_split_list, lines 747-750: cut after slow, return the second half
SplitList(nx, h) ==
    LET slow == SplitLoop(nx, h, nx[h])
    IN [nx |-> [nx EXCEPT ![slow] = NULL], mid |-> nx[slow]]

\* the test of _gll_sorted_merge, line 760: a goes first
\* a merge that takes the right node on a tie
TakesLeftStrict(a, b) == Comparator(data[a], data[b]) < 0
TakesLeft(a, b) == Comparator(data[a], data[b]) <= 0

\* a merge that leaves the prev links as they were
RECURSIVE SortedMergeNoPrev(_, _, _, _)
SortedMergeNoPrev(nx, pv, a, b) ==
    IF a = NULL THEN [nx |-> nx, pv |-> pv, res |-> b]
    ELSE IF b = NULL THEN [nx |-> nx, pv |-> pv, res |-> a]
    ELSE IF TakesLeft(a, b)
    THEN LET r == SortedMergeNoPrev(nx, pv, nx[a], b)
         IN [nx |-> [r.nx EXCEPT ![a] = r.res], pv |-> r.pv, res |-> a]
    ELSE LET r == SortedMergeNoPrev(nx, pv, a, nx[b])
         IN [nx |-> [r.nx EXCEPT ![b] = r.res], pv |-> r.pv, res |-> b]

\* _gll_sorted_merge, lines 755-775
RECURSIVE SortedMerge(_, _, _, _)
SortedMerge(nx, pv, a, b) ==
    IF a = NULL THEN [nx |-> nx, pv |-> pv, res |-> b]
    ELSE IF b = NULL THEN [nx |-> nx, pv |-> pv, res |-> a]
    ELSE IF TakesLeft(a, b)
    THEN LET r == SortedMerge(nx, pv, nx[a], b)
         IN [nx |-> [r.nx EXCEPT ![a] = r.res],
             pv |-> [[r.pv EXCEPT ![r.res] = a] EXCEPT ![a] = NULL],
             res |-> a]
    ELSE LET r == SortedMerge(nx, pv, a, nx[b])
         IN [nx |-> [r.nx EXCEPT ![b] = r.res],
             pv |-> [[r.pv EXCEPT ![r.res] = b] EXCEPT ![b] = NULL],
             res |-> b]

\* _gll_merge_sort, lines 780-786
RECURSIVE MergeSort(_, _, _)
MergeSort(nx, pv, h) ==
    IF h = NULL \/ nx[h] = NULL THEN [nx |-> nx, pv |-> pv, res |-> h]
    ELSE LET sp == SplitList(nx, h)
             l == MergeSort(sp.nx, pv, h)
             r == MergeSort(l.nx, l.pv, sp.mid)
         IN SortedMerge(r.nx, r.pv, l.res, r.res)

\* gll_sort, lines 450-457: the new tail is the end of the chain
\* a sort that takes the new head for the tail
ChainEndHead(nx, h) == h
ChainEnd(nx, h) == LET c == WalkIn(nx, h, MaxNodes + 1) IN c[Len(c)]

\* gll_sort, lines 442-457.  On a chain that runs into a freed node the
\* merge sort reads freed memory and the process may die; on a chain that
\* loops the split never ends and the call does not return.
SortBody(t) ==
    /\ At(t, "sort", "body")
    /\ IF head = NULL \/ size < 2
       THEN /\ stk' = Leave(t, 0)
            /\ UNCHANGED <<listv, heapv, crashed, uaf>>
       ELSE IF ~(Range(Chain) \subseteq live)
       THEN /\ crashed' = TRUE
            /\ uaf' = TRUE
            /\ UNCHANGED <<listv, heapv, stk>>
       ELSE /\ Len(Chain) <= MaxNodes
            /\ LET r == MergeSort(next, prev, head)
               IN /\ head' = r.res
                  /\ next' = r.nx
                  /\ prev' = r.pv
                  /\ tail' = ChainEnd(r.nx, r.res)
            /\ stk' = Leave(t, 0)
            /\ UNCHANGED <<size, data, live, crashed, uaf>>
    /\ UNCHANGED <<lockv, icur, ret, budget, obs, track, cap, deallocator>>

\* if (list->deallocator && node->data) list->deallocator(node->data), lines
\* 421-424: dl is the values passed to the deallocator so far, in order
Deallocate(dl, d) == IF deallocator /\ d # 0 THEN Append(dl, d) ELSE dl

\* one round; the data of a node that is not live is read from freed memory
ClearRound(c) ==
    IF ~c.ok THEN {c}
    ELSE IF c.n = NULL THEN {[c EXCEPT !.ok = FALSE]}
    ELSE IF c.n \in live \ c.fr
    THEN {[c EXCEPT !.n = next[c.n], !.fr = c.fr \cup {c.n},
                    !.dl = Deallocate(c.dl, data[c.n])]}
    ELSE {[c EXCEPT !.n = nx, !.bad = TRUE, !.dl = Deallocate(c.dl, d)] :
             nx \in 0..cap, d \in Values}

\* the runs after k more rounds
RECURSIVE ClearRuns(_, _)
ClearRuns(S, k) ==
    IF k = 0 THEN S ELSE ClearRuns(UNION {ClearRound(c) : c \in S}, k - 1)

\* what gll_clear leaves in head and tail, lines 431-434
ClearedEnd(p) == p

\* gll_clear, lines 410-434
ClearBody(t) ==
    /\ At(t, "clear", "body")
    /\ \E r \in ClearRuns({[n |-> head, fr |-> {}, ok |-> TRUE, bad |-> FALSE,
                             dl |-> <<>>]}, size) :
         \/ /\ live' = live \ r.fr
            /\ data' = [n \in Nodes |-> IF n \in r.fr THEN 0 ELSE data[n]]
            /\ next' = [n \in Nodes |-> IF n \in r.fr THEN NULL ELSE next[n]]
            /\ prev' = [n \in Nodes |-> IF n \in r.fr THEN NULL ELSE prev[n]]
            /\ size' = IF r.ok THEN 0 ELSE size
            /\ head' = ClearedEnd(head)
            /\ tail' = ClearedEnd(tail)
            /\ uaf' = (uaf \/ r.bad)
            /\ stk' = LeaveOut(t, IF r.ok THEN 0 ELSE -1, r.dl)
            /\ UNCHANGED crashed
         \/ /\ r.bad
            /\ crashed' = TRUE
            /\ uaf' = TRUE
            /\ UNCHANGED <<listv, heapv, stk>>
    /\ UNCHANGED <<lockv, icur, ret, budget, obs, track, cap, deallocator>>

\* -------------------------------------------------------------------- clone
\* The clone is a list of its own that only the cloning thread sees until
\* gll_clone returns: its contents are kept in the frame, and gll_append on
\* it adds at its end.
\* gll_clone, lines 109-114: the empty clone and the iterator on the source
CloneBody(t) ==
    /\ At(t, "clone", "body")
    /\ icur' = [icur EXCEPT ![PrivIt(t)] = NULL]
    /\ stk' = SetTop(t, [Top(t) EXCEPT !.pc = "c_loop", !.it = PrivIt(t), !.out = <<>>])
    /\ UNCHANGED <<listv, heapv, lockv, ret, budget, obs, track, cap, deallocator, crashed, uaf>>

\* gll_clone, line 117: the iterator step of the loop
CloneLoop(t) ==
    /\ At(t, "clone", "c_loop")
    /\ stk' = CallFn(t, [Top(t) EXCEPT !.pc = "c_test"],
                     Frame(t, "forward", "ilock", 0, 0, Top(t).it, FALSE))
    /\ UNCHANGED <<listv, heapv, lockv, icur, ret, budget, obs, track, cap, deallocator, crashed, uaf>>

\* a loop that drops the values equal to 0
CloneTakesNonZero(st, d) == st # 0 /\ d # 0
\* gll_clone, line 117: the loop goes on while the step reports an element
CloneTakes(st, d) == st # 0

\* gll_clone, lines 117-123: gll_append(clone, data), or the end of the loop
CloneTest(t) ==
    /\ At(t, "clone", "c_test")
    /\ LET f == Top(t)
       IN IF CloneTakes(ret[t].st, ret[t].out)
          THEN /\ stk' = SetTop(t, [f EXCEPT !.pc = "c_loop",
                                             !.out = Append(f.out, ret[t].out)])
               /\ UNCHANGED icur
          ELSE /\ stk' = SetTop(t, [f EXCEPT !.pc = "ret", !.rv = 1])
               /\ icur' = [icur EXCEPT ![f.it] = NULL]
    /\ UNCHANGED <<listv, heapv, lockv, ret, budget, obs, track, cap, deallocator, crashed, uaf>>

\* ------------------------------------------------- a caller: insert, remove
\* A caller that calls gll_insert(list, i, v) and then gll_remove(list, i).
PairInsert(t) ==
    /\ At(t, "insert_remove", "body")
    /\ stk' = CallFn(t, [Top(t) EXCEPT !.pc = "ir_mid"],
                     Frame(t, "insert", "lock", Top(t).idx, Top(t).val, 0, FALSE))
    /\ UNCHANGED <<listv, heapv, lockv, icur, ret, budget, obs, track, cap, deallocator, crashed, uaf>>

PairRemove(t) ==
    /\ At(t, "insert_remove", "ir_mid")
    /\ stk' = CallFn(t, [Top(t) EXCEPT !.pc = "ir_end", !.loc = ret[t].st],
                     Frame(t, "remove", "lock", Top(t).idx, 0, 0, FALSE))
    /\ UNCHANGED <<listv, heapv, lockv, icur, ret, budget, obs, track, cap, deallocator, crashed, uaf>>

PairEnd(t) ==
    /\ At(t, "insert_remove", "ir_end")
    /\ stk' = SetTop(t, [Top(t) EXCEPT !.pc = "ret", !.rv = ret[t].st])
    /\ UNCHANGED <<listv, heapv, lockv, icur, ret, budget, obs, track, cap, deallocator, crashed, uaf>>

\* --------------------------------------- a caller: the ends and the queries
\* A caller that makes gll_append, gll_push, gll_pop and gll_trim calls in
\* any order, counting in i the insertions less the removals made on a
\* non-empty list, and after each of them asks gll_size, gll_peek and
\* gll_peek_last, keeping their results in loc, n and out.
EndAllocs == {"append", "push"}
EndOps == EndAllocs \cup {"pop", "trim"}

EndsCall(t) ==
    /\ ~crashed /\ ~Idle(t) /\ Top(t).fn = "ends" /\ Top(t).pc \in {"body", "e_chk"}
    /\ \E op \in EndOps, v \in Values :
         /\ op \in EndAllocs => CanAlloc
         /\ op \notin EndAllocs => v = 0
         /\ stk' = CallFn(t, [Top(t) EXCEPT
                                !.pc = "e_size",
                                !.i = IF op \in EndAllocs THEN @ + 1
                                      ELSE IF size # 0 THEN @ - 1 ELSE @,
                                !.bwd = (op \notin EndAllocs /\ size = 0),
                                !.rs = IF op \in EndAllocs THEN 1 ELSE 0,
                                !.loc = 0, !.n = 0, !.out = 0],
                          Frame(t, op, "lock", 0, v, 0, FALSE))
    /\ UNCHANGED <<listv, heapv, lockv, icur, ret, budget, obs, track, cap, deallocator, crashed, uaf>>

EndsSize(t) ==
    /\ At(t, "ends", "e_size")
    /\ stk' = CallFn(t, [Top(t) EXCEPT !.pc = "e_peek"],
                     Frame(t, "size", "lock", 0, 0, 0, FALSE))
    /\ UNCHANGED <<listv, heapv, lockv, icur, ret, budget, obs, track, cap, deallocator, crashed, uaf>>

EndsPeek(t) ==
    /\ At(t, "ends", "e_peek")
    /\ stk' = CallFn(t, [Top(t) EXCEPT !.pc = "e_last", !.loc = ret[t].st],
                     Frame(t, "peek", "lock", 0, 0, 0, FALSE))
    /\ UNCHANGED <<listv, heapv, lockv, icur, ret, budget, obs, track, cap, deallocator, crashed, uaf>>

EndsPeekLast(t) ==
    /\ At(t, "ends", "e_last")
    /\ stk' = CallFn(t, [Top(t) EXCEPT !.pc = "e_done", !.n = ret[t].st],
                     Frame(t, "peek_last", "lock", 0, 0, 0, FALSE))
    /\ UNCHANGED <<listv, heapv, lockv, icur, ret, budget, obs, track, cap, deallocator, crashed, uaf>>

EndsDone(t) ==
    /\ At(t, "ends", "e_done")
    /\ stk' = SetTop(t, [Top(t) EXCEPT !.pc = "e_chk", !.out = ret[t].st])
    /\ UNCHANGED <<listv, heapv, lockv, icur, ret, budget, obs, track, cap, deallocator, crashed, uaf>>

\* ------------------------------------ a caller: reset, then one step
\* A caller that calls gll_iterator_reset(iterator) and then
\* gll_iterator_forward or gll_iterator_backward on the same iterator.
ResetOps == {"reset_forward", "reset_backward"}

ResetFirst(t) ==
    /\ ~crashed /\ ~Idle(t) /\ Top(t).fn \in ResetOps /\ Top(t).pc = "body"
    /\ stk' = CallFn(t, [Top(t) EXCEPT !.pc = "rs_mid"],
                     Frame(t, "reset", "ilock", 0, 0, Top(t).it, FALSE))
    /\ UNCHANGED <<listv, heapv, lockv, icur, ret, budget, obs, track, cap, deallocator, crashed, uaf>>

ResetStep(t) ==
    /\ ~crashed /\ ~Idle(t) /\ Top(t).fn \in ResetOps /\ Top(t).pc = "rs_mid"
    /\ stk' = CallFn(t, [Top(t) EXCEPT !.pc = "rs_end", !.loc = ret[t].st],
                     Frame(t, IF Top(t).fn = "reset_forward" THEN "forward" ELSE "backward",
                           "ilock", 0, 0, Top(t).it, FALSE))
    /\ UNCHANGED <<listv, heapv, lockv, icur, ret, budget, obs, track, cap, deallocator, crashed, uaf>>

ResetEnd(t) ==
    /\ ~crashed /\ ~Idle(t) /\ Top(t).fn \in ResetOps /\ Top(t).pc = "rs_end"
    /\ stk' = SetTop(t, [Top(t) EXCEPT !.pc = "ret", !.rv = ret[t].st, !.out = ret[t].out])
    /\ UNCHANGED <<listv, heapv, lockv, icur, ret, budget, obs, track, cap, deallocator, crashed, uaf>>

\* ------------------------------------------------------------ initial state
\* the list holding the values of s in nodes 1..Len(s): what Len(s) calls of
\* gll_append leave when calloc hands out rising addresses
ListOf(s) ==
    /\ head = (IF Len(s) = 0 THEN NULL ELSE 1)
    /\ tail = Len(s)
    /\ size = Len(s)
    /\ data = [n \in Nodes |-> IF n <= Len(s) THEN s[n] ELSE 0]
    /\ next = [n \in Nodes |-> IF n < Len(s) THEN n + 1 ELSE NULL]
    /\ prev = [n \in Nodes |-> IF n <= Len(s) THEN n - 1 ELSE NULL]
    /\ live = 1..Len(s)

\* threads, mutexes and iterators before any call
InitRest ==
    /\ lmtx = [owner |-> 0, count |-> 0]
    /\ imtx = [i \in Iters |-> 0]
    /\ icur = [i \in Iters |-> NULL]
    /\ stk = [t \in Threads |-> <<>>]
    /\ ret = [t \in Threads |-> NoRet]
    /\ obs = [t \in Threads |-> NoObs]
    /\ crashed = FALSE
    /\ uaf = FALSE

\* the same with the shared iterator's cursor at c: NULL after
\* gll_iterator_create, a node of the list after steps over it
InitAt(c) ==
    /\ lmtx = [owner |-> 0, count |-> 0]
    /\ imtx = [i \in Iters |-> 0]
    /\ icur = [i \in Iters |-> IF i \in SharedIts THEN c ELSE NULL]
    /\ stk = [t \in Threads |-> <<>>]
    /\ ret = [t \in Threads |-> NoRet]
    /\ obs = [t \in Threads |-> NoObs]
    /\ crashed = FALSE
    /\ uaf = FALSE

\* gll_create: calloc of the list, lines 88-99
InitList == ListOf(<<>>) /\ InitRest

\* -------------------------------------------------------------------- calls
AllocOps == {"append", "push", "insert", "insert_remove"}
IterOps == {"forward", "backward", "reset"}
MutOps == {"append", "push", "pop", "trim", "insert", "remove", "sort"}
QueryOps == {"size", "peek", "peek_last", "find"}

IdxOf(op) == IF op \in {"insert", "remove", "insert_remove"} THEN 0..(cap + 1) ELSE {0}
ValOf(op, vals) ==
    IF op \in {"append", "push", "insert", "find", "insert_remove"} THEN vals ELSE {0}
ItOf(op) == IF op \in IterOps \cup ResetOps THEN SharedIts ELSE {0}

\* where a function starts: the iterator functions lock the iterator, the
\* list functions the list, gll_clone and the callers' own code nothing
NoLockOps == {"clone", "insert_remove", "ends", "two_lists"} \cup ResetOps
EntryPc(op) ==
    IF op \in IterOps THEN "ilock"
    ELSE IF op \in NoLockOps THEN "body"
    ELSE "lock"

\* a thread calls a library function on the list (or on the shared iterator)
Call(t, ops, vals) ==
    /\ ~crashed /\ Idle(t) /\ budget[t] # 0
    /\ \E op \in ops, idx \in 0..(MaxNodes + 1), val \in Values, it \in Iters \cup {0} :
        /\ idx \in IdxOf(op) /\ val \in ValOf(op, vals) /\ it \in ItOf(op)
        /\ op \in AllocOps => CanAlloc
        /\ stk' = [stk EXCEPT ![t] =
                     <<[Frame(t, op, EntryPc(op), idx, val, it, FALSE)
                          EXCEPT !.rs = IF op \in AllocOps THEN 1 ELSE 0]>>]
        /\ obs' = [obs EXCEPT ![t] =
                     [op |-> op, idx |-> idx, val |-> val,
                      pre |-> IF track THEN Elems ELSE <<>>,
                      psize |-> IF track THEN size ELSE 0,
                      phead |-> IF track THEN head ELSE NULL,
                      ptail |-> IF track THEN tail ELSE NULL]]
    /\ budget' = [budget EXCEPT ![t] = IF @ > 0 THEN @ - 1 ELSE @]
    /\ UNCHANGED <<listv, heapv, lockv, icur, ret, track, cap, deallocator, crashed, uaf>>

\* ------------------------------------------------------ one caller, no clear
\* A single thread calls append, push, pop, trim, insert, remove and sort in
\* any order on a list made by gll_create.
Bits == {0, 1}

InitSeq ==
    /\ InitList
    /\ budget = [t \in Threads |-> IF t = 1 THEN -1 ELSE 0]
    /\ track = TRUE
    /\ deallocator = FALSE
    /\ cap = SeqNodes

CallSeq(t) == Call(t, MutOps, Bits)

NextSeq ==
    \E t \in {1} :
        \/ CallSeq(t)
        \/ LockList(t)
        \/ UnlockList(t)
        \/ Return(t)
        \/ AppendA1(t)
        \/ AppendA2(t)
        \/ PushP1(t)
        \/ PushP2(t)
        \/ PopBody(t)
        \/ TrimBody(t)
        \/ InsertBody(t)
        \/ RemoveBody(t)
        \/ AfterCall(t)
        \/ WalkInit(t)
        \/ WalkLoop(t)
        \/ WalkTest(t)
        \/ InsertSplice(t)
        \/ RemoveUnlink(t)
        \/ LockIter(t)
        \/ UnlockIter(t)
        \/ ForwardBody(t)
        \/ BackwardBody(t)
        \/ SortBody(t)

SpecSeq == InitSeq /\ [][NextSeq]_vars

\* ------------------------------------------------- one call on any list
\* The list is any list of at most MaxNodes values; one thread makes one call.
SeqsUpTo(vals, k) == UNION {[1..m -> vals] : m \in 0..k}

InitOne ==
    /\ \E s \in SeqsUpTo(Values, MaxNodes) : ListOf(s)
    /\ InitRest
    /\ budget = [t \in Threads |-> IF t = 1 THEN 1 ELSE 0]
    /\ track = TRUE
    /\ deallocator = FALSE
    /\ cap = MaxNodes

CallOne(t) == Call(t, MutOps, Values)

NextOne ==
    \E t \in {1} :
        \/ CallOne(t)
        \/ LockList(t)
        \/ UnlockList(t)
        \/ Return(t)
        \/ AppendA1(t)
        \/ AppendA2(t)
        \/ PushP1(t)
        \/ PushP2(t)
        \/ PopBody(t)
        \/ TrimBody(t)
        \/ InsertBody(t)
        \/ RemoveBody(t)
        \/ AfterCall(t)
        \/ WalkInit(t)
        \/ WalkLoop(t)
        \/ WalkTest(t)
        \/ InsertSplice(t)
        \/ RemoveUnlink(t)
        \/ LockIter(t)
        \/ UnlockIter(t)
        \/ ForwardBody(t)
        \/ BackwardBody(t)
        \/ SortBody(t)

SpecOne == InitOne /\ [][NextOne]_vars

\* ------------------------------------------------------- concurrent appends
\* the k-th value thread t appends: pairwise distinct over threads and calls
AppVal(t, k) == (t - 1) * MaxNodes + k

CallApp(t) ==
    /\ ~crashed /\ Idle(t) /\ budget[t] > 0
    /\ stk' = [stk EXCEPT ![t] =
                 <<Frame(t, "append", "lock", 0,
                         AppVal(t, AppCount(t) - budget[t] + 1), 0, FALSE)>>]
    /\ budget' = [budget EXCEPT ![t] = @ - 1]
    /\ obs' = [obs EXCEPT ![t] = [NoObs EXCEPT !.op = "append"]]
    /\ UNCHANGED <<listv, heapv, lockv, icur, ret, track, cap, deallocator, crashed, uaf>>

InitApp ==
    /\ InitList
    /\ budget = [t \in Threads |-> AppCount(t)]
    /\ track = FALSE
    /\ deallocator = FALSE
    /\ cap = MaxNodes

NextApp ==
    \E t \in Threads :
        \/ CallApp(t)
        \/ LockList(t)
        \/ AppendA1(t)
        \/ AppendA2(t)
        \/ UnlockList(t)
        \/ Return(t)

SpecApp == InitApp /\ [][NextApp]_vars

\* ------------------------------------------ a few calls of any function
\* One thread makes MaxCalls calls, of any function of the library, on any
\* list of at most SeqNodes values; its iterator is the shared one.
AllOps == MutOps \cup QueryOps \cup IterOps \cup {"clear"}

InitAll ==
    /\ \E s \in SeqsUpTo(Bits, SeqNodes) : ListOf(s)
    /\ InitRest
    /\ budget = [t \in Threads |-> IF t = 1 THEN MaxCalls ELSE 0]
    /\ track = TRUE
    /\ deallocator = FALSE
    /\ cap = SeqNodes

CallAll(t) == Call(t, AllOps, Bits)

Body(t) ==
    \/ AppendA1(t)
    \/ AppendA2(t)
    \/ PushP1(t)
    \/ PushP2(t)
    \/ PopBody(t)
    \/ TrimBody(t)
    \/ SizeBody(t)
    \/ PeekBody(t)
    \/ PeekLastBody(t)
    \/ FindBody(t)
    \/ FindLoop(t)
    \/ FindTest(t)
    \/ InsertBody(t)
    \/ RemoveBody(t)
    \/ AfterCall(t)
    \/ WalkInit(t)
    \/ WalkLoop(t)
    \/ WalkTest(t)
    \/ InsertSplice(t)
    \/ RemoveUnlink(t)
    \/ ClearBody(t)
    \/ SortBody(t)
    \/ ForwardBody(t)
    \/ BackwardBody(t)
    \/ ResetBody(t)

NextAll ==
    \E t \in {1} :
        \/ CallAll(t)
        \/ LockList(t)
        \/ UnlockList(t)
        \/ LockIter(t)
        \/ UnlockIter(t)
        \/ Return(t)
        \/ Body(t)

SpecAll == InitAll /\ [][NextAll]_vars

\* ------------------------------------------- a traverser and a mutator
\* Thread 1 steps the shared iterator while thread 2 mutates the list; each
\* makes MaxCalls calls. The list starts as up to ConcNodes zeros.
ConcNodes == 3          \* nodes the allocator hands out to the two threads
ChangeOps == MutOps \cup {"clear"}

InitConc ==
    /\ \E s \in SeqsUpTo({0}, ConcNodes) : ListOf(s)
    /\ InitRest
    /\ budget = [t \in Threads |-> MaxCalls]
    /\ track = FALSE
    /\ deallocator = FALSE
    /\ cap = ConcNodes

CallConc(t) == Call(t, IF t = 1 THEN IterOps ELSE ChangeOps, Bits)

Locks(t) ==
    \/ LockList(t)
    \/ UnlockList(t)
    \/ LockIter(t)
    \/ UnlockIter(t)
    \/ Return(t)

NextConc ==
    \E t \in Threads :
        \/ CallConc(t)
        \/ Locks(t)
        \/ AppendA1(t)
        \/ AppendA2(t)
        \/ PushP1(t)
        \/ PushP2(t)
        \/ PopBody(t)
        \/ TrimBody(t)
        \/ InsertBody(t)
        \/ RemoveBody(t)
        \/ AfterCall(t)
        \/ WalkInit(t)
        \/ WalkLoop(t)
        \/ WalkTest(t)
        \/ InsertSplice(t)
        \/ RemoveUnlink(t)
        \/ ClearBody(t)
        \/ SortBody(t)
        \/ ForwardBody(t)
        \/ BackwardBody(t)
        \/ ResetBody(t)

SpecConc == InitConc /\ [][NextConc]_vars

\* --------------------------------------------- both lock orders, fairly
\* Thread 1 steps the shared iterator (iterator lock, then list lock) and
\* searches the list; thread 2 clears, pushes and removes (list lock, then
\* the lock of the function's own iterator). Each makes MaxCalls calls, and
\* a thread that can take a step eventually takes one.
FairOps(t) == IF t = 1 THEN {"forward", "find"} ELSE {"clear", "push", "remove"}

CallFair(t) == Call(t, FairOps(t), Bits)

StepFair(t) ==
    \/ CallFair(t)
    \/ Locks(t)
    \/ PushP1(t)
    \/ PushP2(t)
    \/ PopBody(t)
    \/ TrimBody(t)
    \/ RemoveBody(t)
    \/ AfterCall(t)
    \/ WalkInit(t)
    \/ WalkLoop(t)
    \/ WalkTest(t)
    \/ RemoveUnlink(t)
    \/ ClearBody(t)
    \/ FindBody(t)
    \/ FindLoop(t)
    \/ FindTest(t)
    \/ ForwardBody(t)

NextFair == \E t \in Threads : StepFair(t)

SpecFair == InitConc /\ [][NextFair]_vars /\ \A t \in Threads : WF_vars(StepFair(t))

\* ------------------------------------------ one use of a list, any list
\* One thread, on any list of at most MaxNodes values, makes one call of
\* gll_find or gll_clone, or inserts and removes at one index.
UseOps == {"find", "clone", "insert_remove"}

InitUse ==
    /\ \E s \in SeqsUpTo(Values, MaxNodes) : ListOf(s)
    /\ InitRest
    /\ budget = [t \in Threads |-> IF t = 1 THEN 1 ELSE 0]
    /\ track = TRUE
    /\ deallocator = FALSE
    /\ cap = MaxNodes

CallUse(t) == Call(t, UseOps, Values)

NextUse ==
    \E t \in {1} :
        \/ CallUse(t)
        \/ Locks(t)
        \/ FindBody(t)
        \/ FindLoop(t)
        \/ FindTest(t)
        \/ CloneBody(t)
        \/ CloneLoop(t)
        \/ CloneTest(t)
        \/ PairInsert(t)
        \/ PairRemove(t)
        \/ PairEnd(t)
        \/ AppendA1(t)
        \/ AppendA2(t)
        \/ PushP1(t)
        \/ PushP2(t)
        \/ PopBody(t)
        \/ TrimBody(t)
        \/ InsertBody(t)
        \/ RemoveBody(t)
        \/ AfterCall(t)
        \/ WalkInit(t)
        \/ WalkLoop(t)
        \/ WalkTest(t)
        \/ InsertSplice(t)
        \/ RemoveUnlink(t)
        \/ ForwardBody(t)
        \/ BackwardBody(t)

SpecUse == InitUse /\ [][NextUse]_vars

\* ------------------------------------------- one caller walks with an iterator
\* A single thread has an iterator on a list it does not change.  The
\* iterator is new (cursor NULL) or has been stepped to some node and is
\* reset by the first call; the calls after that all go one way, enough of
\* them to pass the end of the list twice.
IterCalls == MaxNodes + 2

InitWalk ==
    /\ \E s \in SeqsUpTo(Values, MaxNodes) : ListOf(s)
    /\ \E c \in {NULL} \cup live : InitAt(c)
    /\ \E b \in {IterCalls, IterCalls + 1} :
         /\ b = IterCalls => icur[100] = NULL
         /\ budget = [t \in Threads |-> IF t = 1 THEN b ELSE 0]
    /\ track = TRUE
    /\ deallocator = FALSE
    /\ cap = MaxNodes

CallWalk(t, op) ==
    IF budget[t] = IterCalls + 1
    THEN Call(t, {"reset"}, Values)
    ELSE Call(t, {op}, Values)

NextFwd ==
    \E t \in {1} :
        \/ CallWalk(t, "forward")
        \/ Locks(t)
        \/ ResetBody(t)
        \/ ForwardBody(t)

SpecFwd == InitWalk /\ [][NextFwd]_vars

NextBwd ==
    \E t \in {1} :
        \/ CallWalk(t, "backward")
        \/ Locks(t)
        \/ ResetBody(t)
        \/ BackwardBody(t)

SpecBwd == InitWalk /\ [][NextBwd]_vars

\* ------------------------------------------ one caller resets, then steps
\* A single thread resets an iterator that is at any position of a list and
\* then steps it once, forward or backward.
InitReset ==
    /\ \E s \in SeqsUpTo(Values, MaxNodes) : ListOf(s)
    /\ \E c \in {NULL} \cup live : InitAt(c)
    /\ budget = [t \in Threads |-> IF t = 1 THEN 1 ELSE 0]
    /\ track = TRUE
    /\ deallocator = FALSE
    /\ cap = MaxNodes

CallReset(t) == Call(t, ResetOps, Values)

NextReset ==
    \E t \in {1} :
        \/ CallReset(t)
        \/ Locks(t)
        \/ ResetFirst(t)
        \/ ResetStep(t)
        \/ ResetEnd(t)
        \/ ResetBody(t)
        \/ ForwardBody(t)
        \/ BackwardBody(t)

SpecReset == InitReset /\ [][NextReset]_vars


\* ------------------------------------------------------- calloc returns NULL
\* the places where a function is about to call calloc: the node of
\* gll_append (line 140), gll_push (line 167) and _gll_insert (line 679), and
\* the iterator of _gll_insert and _gll_remove (gll_iterator_create, lines
\* 666 and 697)
AtCalloc(t) ==
    \/ At(t, "append", "a1")
    \/ At(t, "push", "p1")
    \/ At(t, "_gll_insert", "w_done")
    \/ ~Idle(t) /\ IsWalkFn(Top(t).fn) /\ Top(t).pc = "w_init"

\* calloc fails.  No caller tests the result: the node is written through at
\* once (node->data = data, lines 141, 168, 680); with a NULL iterator the
\* walk's steps return 0 at once (lines 494, 532) and iterator->current is
\* read through NULL (lines 682, 711).  Each is a NULL dereference.
AllocFail(t) ==
    /\ ~crashed /\ AtCalloc(t)
    /\ crashed' = TRUE
    /\ UNCHANGED <<listv, heapv, lockv, icur, stk, ret, budget, obs, track, cap, deallocator, uaf>>

\* ------------------------------------------- calls with a NULL reference
\* The status-returning functions called with list (or iterator) NULL: each
\* tests its argument first and returns.  gll_destroy returns -1 because
\* gll_clear(NULL) does (line 128).
NullOps == {"append", "push", "insert", "clear", "destroy", "sort",
            "iterator_destroy", "reset"}

\* lines 137, 164, 331, 407, 128, 485 and 570 return -1; line 439 returns 0
NullStatus(fn) == IF fn = "sort" THEN 0 ELSE -1

CallNull(t) ==
    /\ ~crashed /\ Idle(t) /\ budget[t] # 0
    /\ \E op \in NullOps :
         /\ stk' = [stk EXCEPT ![t] = <<Frame(t, op, "null", 0, 0, 0, FALSE)>>]
         /\ obs' = [obs EXCEPT ![t] =
                      [op |-> op, idx |-> 0, val |-> 0, pre |-> Elems,
                       psize |-> size, phead |-> head, ptail |-> tail]]
    /\ budget' = [budget EXCEPT ![t] = IF @ > 0 THEN @ - 1 ELSE @]
    /\ UNCHANGED <<listv, heapv, lockv, icur, ret, track, cap, deallocator, crashed, uaf>>

\* if (!list) return ...; if (!iterator) return ...
NullCheck(t) ==
    /\ ~crashed /\ ~Idle(t) /\ Top(t).pc = "null"
    /\ stk' = SetTop(t, [Top(t) EXCEPT !.pc = "ret", !.rv = NullStatus(Top(t).fn)])
    /\ UNCHANGED <<listv, heapv, lockv, icur, ret, budget, obs, track, cap, deallocator, crashed, uaf>>

\* --------------------------------------------------- gll_comparator_int32
\* the signed values of the narrow width
Int32 == (0 - 2 ^ (CmpBits - 1))..(2 ^ (CmpBits - 1) - 1)
\* _gll_int32_to_data, gll.h line 55: the value sign-extended to the data word
DataOf(x) == (x + 2 ^ (2 * CmpBits)) % (2 ^ (2 * CmpBits))
\* (int32_t) data: the low bits of the word, read as a signed value
Int32Of(d) ==
    LET l == d % (2 ^ CmpBits)
    IN IF l >= 2 ^ (CmpBits - 1) THEN l - 2 ^ CmpBits ELSE l
\* a - b on int32_t, line 581: signed overflow is undefined, the build may
\* produce any value of the type (the wrapped difference among them)
Int32Sub(a, b) == IF a - b \in Int32 THEN {a - b} ELSE Int32

\* a caller passes GLL_DATA(x) and GLL_DATA(y) for two int32_t values
CallCmp(t) ==
    /\ ~crashed /\ Idle(t) /\ budget[t] # 0
    /\ \E x \in Int32, y \in Int32 :
         /\ stk' = [stk EXCEPT ![t] =
                      <<Frame(t, "comparator_int32", "body", DataOf(x), DataOf(y), 0, FALSE)>>]
         /\ obs' = [obs EXCEPT ![t] = [NoObs EXCEPT !.op = "comparator_int32",
                                                   !.idx = x, !.val = y]]
    /\ budget' = [budget EXCEPT ![t] = IF @ > 0 THEN @ - 1 ELSE @]
    /\ UNCHANGED <<listv, heapv, lockv, icur, ret, track, cap, deallocator, crashed, uaf>>

\* gll_comparator_int32, line 581
CmpBody(t) ==
    /\ At(t, "comparator_int32", "body")
    /\ \E r \in Int32Sub(Int32Of(Top(t).idx), Int32Of(Top(t).val)) :
         stk' = SetTop(t, [Top(t) EXCEPT !.pc = "ret", !.rv = r])
    /\ UNCHANGED <<listv, heapv, lockv, icur, ret, budget, obs, track, cap, deallocator, crashed, uaf>>

InitCmp ==
    /\ InitList
    /\ budget = [t \in Threads |-> IF t = 1 THEN 1 ELSE 0]
    /\ track = TRUE
    /\ deallocator = FALSE
    /\ cap = MaxNodes

NextCmp ==
    \E t \in {1} :
        \/ CallCmp(t)
        \/ CmpBody(t)
        \/ Return(t)

SpecCmp == InitCmp /\ [][NextCmp]_vars

\* ------------------------------------- one caller, a deallocator is set
\* A single thread makes MaxCalls + 1 calls of gll_clear, gll_append, gll_pop,
\* gll_trim and gll_remove on a list of up to ConcNodes values that was
\* created with a deallocator.
DtorOps == {"clear", "append", "pop", "trim", "remove"}

InitDtor ==
    /\ \E s \in SeqsUpTo(Values, ConcNodes) : ListOf(s)
    /\ InitRest
    /\ budget = [t \in Threads |-> IF t = 1 THEN MaxCalls + 1 ELSE 0]
    /\ track = TRUE
    /\ deallocator = TRUE
    /\ cap = ConcNodes

CallDtor(t) == Call(t, DtorOps, Values)

NextDtor ==
    \E t \in {1} :
        \/ CallDtor(t)
        \/ Locks(t)
        \/ ClearBody(t)
        \/ AppendA1(t)
        \/ AppendA2(t)
        \/ PopBody(t)
        \/ TrimBody(t)
        \/ RemoveBody(t)
        \/ AfterCall(t)
        \/ WalkInit(t)
        \/ WalkLoop(t)
        \/ WalkTest(t)
        \/ RemoveUnlink(t)
        \/ ForwardBody(t)
        \/ BackwardBody(t)

SpecDtor == InitDtor /\ [][NextDtor]_vars

\* ------------------------------------ a caller: a list and its clone
\* A caller that clones the list and then calls append, push, pop, trim,
\* insert, remove, sort and clear on the clone and on the source in any
\* order.  The model has one gll_list_t under head, tail and size: the
\* caller's frame keeps the fields of the list it is not calling on in loc
\* and exchanges the two when it turns to the other list (both lists' nodes
\* are in the one heap).  bwd says that the list under head, tail and size is
\* the clone, idx holds what the other list looked like when the caller
\* left it, i counts the calls made.
TwoNodes == 4           \* node addresses of the source and the clone together
TwoLen == 1             \* elements of the source before gll_clone
TwoCalls == 3           \* calls the caller makes after gll_clone

\* what a caller can see of a list: its size, the nodes from head along
\* next, the nodes from tail along prev, and the values of the former; ok
\* says that all of these nodes are allocated
View(h, tl, sz) ==
    LET c == WalkIn(next, h, MaxNodes + 1)
        b == WalkIn(prev, tl, MaxNodes + 1)
    IN [size |-> sz, fwd |-> c, bck |-> b,
        vals |-> [k \in 1..Len(c) |-> data[c[k]]],
        ok |-> Range(c) \cup Range(b) \subseteq live]

\* gll_clone(list); its loop's values are kept in ret[t].out
TwoClone(t) ==
    /\ At(t, "two_lists", "body")
    /\ stk' = CallFn(t, [Top(t) EXCEPT !.pc = "t_made"],
                     Frame(t, "clone", "body", 0, 0, 0, FALSE))
    /\ UNCHANGED <<listv, heapv, lockv, icur, ret, budget, obs, track, cap, deallocator, crashed, uaf>>

\* gll_clone, line 110: gll_create(&cfg) makes the empty clone; with one
\* thread the gll_append calls of line 119 commute with the iterator steps
\* on the source, and are made after them
TwoCreate(t) ==
    /\ At(t, "two_lists", "t_made")
    /\ head' = NULL /\ tail' = NULL /\ size' = 0
    /\ stk' = SetTop(t, [Top(t) EXCEPT !.pc = "t_fill", !.bwd = TRUE,
                                       !.loc = listv, !.out = ret[t].out,
                                       !.idx = View(head, tail, size)])
    /\ UNCHANGED <<heapv, lockv, icur, ret, budget, obs, track, cap, deallocator, crashed, uaf>>

\* gll_clone, line 119: gll_append(clone, data) for each value of the loop
TwoFill(t) ==
    /\ At(t, "two_lists", "t_fill")
    /\ LET f == Top(t)
       IN IF f.out # <<>>
          THEN stk' = CallFn(t, [f EXCEPT !.out = Tail(f.out), !.rs = 1],
                             Frame(t, "append", "lock", 0, Head(f.out), 0, FALSE))
          ELSE stk' = SetTop(t, [f EXCEPT !.pc = "t_use", !.out = 0])
    /\ UNCHANGED <<listv, heapv, lockv, icur, ret, budget, obs, track, cap, deallocator, crashed, uaf>>

\* the caller turns to the other list
TwoSwap(t) ==
    /\ At(t, "two_lists", "t_use")
    /\ head' = Top(t).loc[1] /\ tail' = Top(t).loc[2] /\ size' = Top(t).loc[3]
    /\ stk' = SetTop(t, [Top(t) EXCEPT !.bwd = ~@, !.loc = listv,
                                       !.idx = View(head, tail, size)])
    /\ UNCHANGED <<heapv, lockv, icur, ret, budget, obs, track, cap, deallocator, crashed, uaf>>

\* a call on the list the caller has turned to
TwoCall(t) ==
    /\ At(t, "two_lists", "t_use")
    /\ Top(t).i < TwoCalls
    /\ \E op \in ChangeOps, idx \in 0..TwoNodes, v \in Bits :
         /\ idx \in IdxOf(op) /\ v \in ValOf(op, Bits)
         /\ op \in AllocOps => CanAlloc
         /\ stk' = CallFn(t, [Top(t) EXCEPT !.i = @ + 1,
                                            !.rs = IF op \in AllocOps THEN 1 ELSE 0],
                          Frame(t, op, "lock", idx, v, 0, FALSE))
    /\ UNCHANGED <<listv, heapv, lockv, icur, ret, budget, obs, track, cap, deallocator, crashed, uaf>>

\* A single thread makes the calls of the caller above on a list of at most
\* TwoLen elements.
InitTwo ==
    /\ \E s \in SeqsUpTo(Bits, TwoLen) : ListOf(s)
    /\ InitRest
    /\ budget = [t \in Threads |-> IF t = 1 THEN 1 ELSE 0]
    /\ track = FALSE
    /\ deallocator = FALSE
    /\ cap = TwoNodes

CallTwo(t) == Call(t, {"two_lists"}, {0})

NextTwo ==
    \E t \in {1} :
        \/ CallTwo(t)
        \/ TwoClone(t)
        \/ TwoCreate(t)
        \/ TwoFill(t)
        \/ TwoSwap(t)
        \/ TwoCall(t)
        \/ CloneBody(t)
        \/ CloneLoop(t)
        \/ CloneTest(t)
        \/ LockList(t)
        \/ UnlockList(t)
        \/ LockIter(t)
        \/ UnlockIter(t)
        \/ Return(t)
        \/ AppendA1(t)
        \/ AppendA2(t)
        \/ PushP1(t)
        \/ PushP2(t)
        \/ PopBody(t)
        \/ TrimBody(t)
        \/ InsertBody(t)
        \/ RemoveBody(t)
        \/ AfterCall(t)
        \/ WalkInit(t)
        \/ WalkLoop(t)
        \/ WalkTest(t)
        \/ InsertSplice(t)
        \/ RemoveUnlink(t)
        \/ ClearBody(t)
        \/ SortBody(t)
        \/ ForwardBody(t)
        \/ BackwardBody(t)

SpecTwo == InitTwo /\ [][NextTwo]_vars

\* ------------------------------------------- a cloner and a mutator
\* Thread 1 calls gll_clone on a list of up to ConcNodes values while thread 2
\* makes one call of gll_append, gll_push or gll_sort.  (With a call that
\* frees a node the cursor of gll_clone's iterator dangles and the loop
\* reads freed memory.)
InitClone ==
    /\ \E s \in SeqsUpTo(Bits, ConcNodes) : ListOf(s)
    /\ InitRest
    /\ budget = [t \in Threads |-> 1]
    /\ track = TRUE
    /\ deallocator = FALSE
    /\ cap = ConcNodes

CallClone(t) == Call(t, IF t = 1 THEN {"clone"} ELSE EndAllocs \cup {"sort"}, Bits)

NextClone ==
    \E t \in Threads :
        \/ CallClone(t)
        \/ Locks(t)
        \/ CloneBody(t)
        \/ CloneLoop(t)
        \/ CloneTest(t)
        \/ ForwardBody(t)
        \/ AppendA1(t)
        \/ AppendA2(t)
        \/ PushP1(t)
        \/ PushP2(t)
        \/ SortBody(t)

SpecClone == InitClone /\ [][NextClone]_vars

\* ------------------------------------- one caller, allocations may fail
\* The calls of SpecOne with a calloc that may return NULL.
NextOom ==
    \/ NextOne
    \/ \E t \in {1} : AllocFail(t)

SpecOom == InitOne /\ [][NextOom]_vars

\* --------------------------------- one caller passes a NULL reference
\* A single thread that has a list and an iterator on it calls one of the
\* status-returning functions with NULL.
InitNull ==
    /\ \E s \in SeqsUpTo(Values, MaxNodes) : ListOf(s)
    /\ \E c \in {NULL} \cup live : InitAt(c)
    /\ budget = [t \in Threads |-> IF t = 1 THEN 1 ELSE 0]
    /\ track = TRUE
    /\ deallocator = FALSE
    /\ cap = MaxNodes

NextNull ==
    \E t \in {1} :
        \/ CallNull(t)
        \/ NullCheck(t)
        \/ Return(t)

SpecNull == InitNull /\ [][NextNull]_vars

\* ------------------------------------- one caller at the ends of a new list
\* A single thread makes the calls of EndsCall on a list made by gll_create.
InitEnds ==
    /\ InitList
    /\ budget = [t \in Threads |-> IF t = 1 THEN 1 ELSE 0]
    /\ track = TRUE
    /\ deallocator = FALSE
    /\ cap = SeqNodes

CallEnds(t) == Call(t, {"ends"}, Values)

NextEnds ==
    \E t \in {1} :
        \/ CallEnds(t)
        \/ LockList(t)
        \/ UnlockList(t)
        \/ Return(t)
        \/ EndsCall(t)
        \/ EndsSize(t)
        \/ EndsPeek(t)
        \/ EndsPeekLast(t)
        \/ EndsDone(t)
        \/ AppendA1(t)
        \/ AppendA2(t)
        \/ PushP1(t)
        \/ PushP2(t)
        \/ PopBody(t)
        \/ TrimBody(t)
        \/ SizeBody(t)
        \/ PeekBody(t)
        \/ PeekLastBody(t)

SpecEnds == InitEnds /\ [][NextEnds]_vars

\* =================================================================== claims
\* the list mutex is free: no call is inside a function body
Quiet == lmtx.owner = 0

\* the values met walking prev from tail, in list order
ElemsBack == Reverse([k \in 1..Len(ChainBack) |-> data[ChainBack[k]]])

\* the data-model invariant of the list
SizeOk ==
    /\ Len(Chain) = size
    /\ Cardinality(Range(Chain)) = Len(Chain)
    /\ size > 0 => Chain[Len(Chain)] = tail
    /\ (head = NULL) = (tail = NULL)
    /\ (head = NULL) = (size = 0)

LinksOk ==
    /\ \A n \in Range(Chain) :
         /\ next[n] # NULL => prev[next[n]] = n
         /\ prev[n] # NULL => next[prev[n]] = n
    /\ head # NULL => prev[head] = NULL
    /\ tail # NULL => next[tail] = NULL
    /\ ChainBack = Reverse(Chain)

\* thread 1's top-level call of fn has its result and is about to return
Returning(fn) ==
    /\ Len(stk[1]) = 1
    /\ stk[1][1].fn = fn
    /\ stk[1][1].pc = "ret"

Result == stk[1][1].rv
InsertAt(s, i, v) == SubSeq(s, 1, i) \o <<v>> \o SubSeq(s, i + 1, Len(s))
RemoveAt(s, i) == SubSeq(s, 1, i) \o SubSeq(s, i + 2, Len(s))

\* C1: whenever no call is inside the list (every call has returned), size is
\* the number of nodes reachable from head by next, the last of them is tail,
\* and head is empty iff tail is empty iff size is 0.
C1_SizeChainTail == Quiet => SizeOk

\* a three-element list whose nodes are not in allocation order: pushes, pops
\* or a sort have acted
C1_Witness ==
    /\ Quiet /\ \A t \in Threads : Idle(t)
    /\ size = 3 /\ Len(Chain) = 3 /\ tail = Chain[3]
    /\ Chain[1] > Chain[2]

\* C2: whenever no call is inside the list, next and prev agree on every
\* node, head.prev and tail.next are empty, and walking prev from tail
\* visits the reverse of the next-walk from head; so too after gll_sort.
C2_LinksConsistent == Quiet => LinksOk

\* gll_sort has just reordered a list of three or more and is returning
C2_Witness ==
    /\ Returning("sort")
    /\ size >= 3
    /\ obs[1].pre # Elems
    /\ ChainBack = Reverse(Chain)

\* every thread has made all its appends and returned
AppDone == \A t \in Threads : Idle(t) /\ budget[t] = 0
AppTotal == AppCount(1) + AppCount(2)
AppPos(v) == {i \in 1..Len(Elems) : Elems[i] = v}

\* C4: after every one of the N threads has appended its M distinct values
\* and returned, size is the number of appends, every appended value is in
\* the list exactly once, and each thread's values are in its own call order.
\* No append dies on the way.
C4_ConcurrentAppend ==
    /\ ~crashed
    /\ AppDone =>
        /\ size = AppTotal
        /\ Len(Elems) = AppTotal
        /\ \A t \in Threads : \A k \in 1..AppCount(t) :
             Cardinality(AppPos(AppVal(t, k))) = 1
        /\ \A t \in Threads : \A k \in 1..(AppCount(t) - 1) :
             \A i \in AppPos(AppVal(t, k)) : \A j \in AppPos(AppVal(t, k + 1)) :
                 i < j

\* all appends are done and the two threads' values are interleaved
C4_Witness ==
    /\ AppDone
    /\ size = AppTotal
    /\ \E i \in 1..(Len(Elems) - 2) :
         /\ Elems[i] = AppVal(2, 1)
         /\ Elems[i + 1] = AppVal(1, 1)
         /\ Elems[i + 2] = AppVal(2, 2)

\* C3: after gll_clear the list is empty in the full sense: size is 0 and
\* head and tail are empty; no call reads a freed node; on a list of size 0
\* peek, peek_last, pop and trim return 0 and leave size 0, and append or
\* push yield a one-element list whose head and tail are the new node.
C3_ClearLeavesEmpty ==
    /\ Returning("clear") => size = 0 /\ head = NULL /\ tail = NULL
    /\ ~uaf
    /\ \A op \in {"peek", "peek_last", "pop", "trim"} :
         (Returning(op) /\ obs[1].psize = 0) => Result = 0 /\ size = 0
    /\ \A op \in {"append", "push"} :
         (Returning(op) /\ obs[1].psize = 0) =>
             /\ size = 1 /\ head = tail /\ head \in live
             /\ Chain = <<head>>

\* C5: when a function returns, at top level or to the function that called
\* it, the calling thread holds the list mutex as many times, and the same
\* iterator mutexes, as when the function was entered; an idle thread holds
\* none.
C5_LocksBalanced ==
    \A t \in Threads :
        /\ (~Idle(t) /\ Top(t).pc = "ret") =>
             /\ HeldL(t) = Top(t).el
             /\ HeldI(t) = Top(t).ei
        /\ Idle(t) => HeldL(t) = 0 /\ HeldI(t) = {}

\* the iterator step gll_find called is returning to it; gll_find still
\* holds the list mutex once
C5_Witness ==
    /\ Len(stk[1]) = 2
    /\ stk[1][1].fn = "find"
    /\ Top(1).fn = "forward" /\ Top(1).pc = "ret"
    /\ Top(1).el = 1 /\ HeldL(1) = 1
    /\ HeldI(1) = {}

\* C6: under fair scheduling every call a thread makes eventually returns
\* (or the process has died).
C6_EveryCallReturns ==
    \A t \in Threads : (~Idle(t)) ~> (Idle(t) \/ crashed)

\* C7: whenever a thread's step of a shared iterator is about to use the
\* cursor (the list is not empty), the cursor is null or a node linked in
\* the list's chain.
C7_CursorLinked ==
    \A t \in Threads :
        (/\ ~Idle(t)
         /\ IsIterFn(Top(t).fn)
         /\ Top(t).pc = "body"
         /\ Top(t).it \in SharedIts
         /\ size # 0) =>
            \/ icur[Top(t).it] = NULL
            \/ /\ icur[Top(t).it] \in live
               /\ icur[Top(t).it] \in Range(Chain)

\* C8: gll_insert with 0 <= index <= size returns 0, size grows by one, and
\* the list is old[0..index), v, old[index..size), on every branch.
C8_InsertAtIndex ==
    /\ ~crashed
    /\ (Returning("insert") /\ obs[1].idx <= obs[1].psize) =>
         /\ Result = 0
         /\ size = obs[1].psize + 1
         /\ Elems = InsertAt(obs[1].pre, obs[1].idx, obs[1].val)
         /\ ElemsBack = Elems

\* an insert that walked back from the tail is returning
C8_Witness ==
    /\ Returning("insert")
    /\ obs[1].idx <= obs[1].psize
    /\ InsertBranch(obs[1].idx, obs[1].psize) = "bwd"
    /\ Elems = InsertAt(obs[1].pre, obs[1].idx, obs[1].val)
    /\ Elems[obs[1].idx] # obs[1].val

\* C9: gll_remove with 0 <= index < size returns the value at index, size
\* shrinks by one, and the rest keep their order, on every branch.
C9_RemoveAtIndex ==
    /\ ~crashed
    /\ (Returning("remove") /\ obs[1].idx < obs[1].psize) =>
         /\ Result = obs[1].pre[obs[1].idx + 1]
         /\ size = obs[1].psize - 1
         /\ Elems = RemoveAt(obs[1].pre, obs[1].idx)
         /\ ElemsBack = Elems

\* a remove that walked back from the tail is returning
C9_Witness ==
    /\ Returning("remove")
    /\ obs[1].idx < obs[1].psize
    /\ RemoveBranch(obs[1].idx, obs[1].psize) = "bwd"
    /\ Elems = RemoveAt(obs[1].pre, obs[1].idx)
    /\ Result # obs[1].pre[obs[1].idx]

\* C10: on a non-empty list gll_pop returns the first element and gll_trim
\* the last, the others stay in order and size shrinks by one; on an empty
\* list both return 0 and leave size, head and tail as they were.
C10_PopTrim ==
    /\ Returning("pop") =>
         IF obs[1].psize > 0
         THEN /\ Result = obs[1].pre[1]
              /\ Elems = SubSeq(obs[1].pre, 2, Len(obs[1].pre))
              /\ size = obs[1].psize - 1
         ELSE /\ Result = 0 /\ size = 0
              /\ head = obs[1].phead /\ tail = obs[1].ptail
    /\ Returning("trim") =>
         IF obs[1].psize > 0
         THEN /\ Result = obs[1].pre[Len(obs[1].pre)]
              /\ Elems = SubSeq(obs[1].pre, 1, Len(obs[1].pre) - 1)
              /\ size = obs[1].psize - 1
         ELSE /\ Result = 0 /\ size = 0
              /\ head = obs[1].phead /\ tail = obs[1].ptail

\* a trim of a list of three whose last two values differ is returning
C10_Witness ==
    /\ Returning("trim")
    /\ obs[1].psize = 3
    /\ obs[1].pre[2] # obs[1].pre[3]
    /\ Result = obs[1].pre[3]
    /\ size = 2

\* the positions of pre that match v under the comparator
Matches(v, pre) == {i \in 1..Len(pre) : Comparator(v, pre[i]) = 0}

\* the list is as it was when the call was made
ListAsBefore ==
    /\ Elems = obs[1].pre
    /\ size = obs[1].psize
    /\ head = obs[1].phead
    /\ tail = obs[1].ptail
    /\ LinksOk

\* C11: gll_find(list, v) returns the smallest index whose element matches v
\* under the comparator, and the size when none matches (0 on the empty
\* list); the list's size, sequence and links are as before.
C11_FindFirstMatch ==
    /\ ~crashed
    /\ Returning("find") =>
         /\ \A i \in Matches(obs[1].val, obs[1].pre) : Result <= i - 1
         /\ Result + 1 \in Matches(obs[1].val, obs[1].pre) \/
              (Matches(obs[1].val, obs[1].pre) = {} /\ Result = obs[1].psize)
         /\ ListAsBefore

\* a find that passed two elements and stopped at the first of two matches
C11_Witness ==
    /\ Returning("find")
    /\ Result = 2
    /\ Cardinality(Matches(obs[1].val, obs[1].pre)) >= 2

C19_InsertRemoveRoundTrip ==
    /\ ~crashed
    /\ (Returning("insert_remove") /\ obs[1].idx <= obs[1].psize) =>
         /\ stk[1][1].loc = 0
         /\ Result = obs[1].val
         /\ Elems = obs[1].pre
         /\ ElemsBack = obs[1].pre
         /\ size = obs[1].psize
         /\ SizeOk /\ LinksOk

\* a round trip in the middle of a list of four whose neighbours differ
\* from the inserted value
C19_Witness ==
    /\ Returning("insert_remove")
    /\ obs[1].psize = 4 /\ obs[1].idx = 3
    /\ obs[1].pre[3] # obs[1].val
    /\ Result = obs[1].val
    /\ Elems = obs[1].pre

Sorted(s) == \A k \in 1..(Len(s) - 1) : Comparator(s[k], s[k + 1]) <= 0

\* C12: after gll_sort the elements are a permutation of the prior ones
\* (the same nodes with the same data), consecutive elements are in
\* comparator order, elements that compare equal keep their prior relative
\* order, and a list of size < 2 is unchanged.  The list the call was made
\* on holds position k in node k, so node order is prior order.
C12_SortStablePermutation ==
    /\ ~crashed
    /\ Returning("sort") =>
         /\ size = obs[1].psize
         /\ Len(Chain) = obs[1].psize
         /\ Range(Chain) = 1..obs[1].psize
         /\ \A n \in 1..obs[1].psize : data[n] = obs[1].pre[n]
         /\ Sorted(Elems)
         /\ \A i, j \in 1..Len(Chain) :
              (i < j /\ Comparator(Elems[i], Elems[j]) = 0) => Chain[i] < Chain[j]
         /\ obs[1].psize < 2 => head = obs[1].phead /\ tail = obs[1].ptail
         /\ SizeOk /\ LinksOk

\* a sort that reordered a list of four or more with two equal elements
C12_Witness ==
    /\ Returning("sort")
    /\ obs[1].psize >= 4
    /\ Elems # obs[1].pre
    /\ Sorted(Elems)
    /\ \E i, j \in 1..Len(Elems) : i < j /\ Elems[i] = Elems[j]

\* C20: gll_sort of a list that is already in comparator order leaves the
\* element sequence, the size and the head and tail elements unchanged.
C20_SortIdempotent ==
    (Returning("sort") /\ Sorted(obs[1].pre)) =>
        /\ Elems = obs[1].pre
        /\ ElemsBack = obs[1].pre
        /\ size = obs[1].psize
        /\ obs[1].psize > 0 =>
             /\ head \in live /\ data[head] = obs[1].pre[1]
             /\ tail \in live /\ data[tail] = obs[1].pre[obs[1].psize]

\* a sort of a sorted list of three or more whose ends differ
C20_Witness ==
    /\ Returning("sort")
    /\ obs[1].psize >= 3
    /\ Sorted(obs[1].pre)
    /\ obs[1].pre[1] # obs[1].pre[obs[1].psize]
    /\ Elems = obs[1].pre

\* the shared iterator's cursor and the number of steps made since its reset
Cursor == icur[100]
StepNo == IterCalls - budget[1]

\* C14: on a list of size n >= 1 that is not changed, the k-th
\* gll_iterator_forward on a new or reset iterator reports found with the
\* element of index k - 1 for k <= n, and not-found with the cursor staying
\* on the tail for k > n; on the empty list it reports not-found and the
\* cursor is null.
C14_ForwardWalk ==
    /\ ~crashed
    /\ Returning("forward") =>
         /\ ListAsBefore
         /\ IF obs[1].psize = 0
            THEN Result = 0 /\ Cursor = NULL
            ELSE IF StepNo <= obs[1].psize
            THEN /\ Result = 1
                 /\ stk[1][1].out = obs[1].pre[StepNo]
                 /\ Cursor = Chain[StepNo]
            ELSE Result = 0 /\ Cursor = tail

\* the second step past the end of a list of three or more
C14_Witness ==
    /\ Returning("forward")
    /\ obs[1].psize >= 3
    /\ StepNo = obs[1].psize + 2
    /\ Result = 0
    /\ Cursor = tail

\* C15: the mirror of C14: the k-th gll_iterator_backward reports found with
\* the element of index n - k for k <= n, and not-found with the cursor
\* staying on the head for k > n; on the empty list not-found, cursor null.
C15_BackwardWalk ==
    /\ ~crashed
    /\ Returning("backward") =>
         /\ ListAsBefore
         /\ IF obs[1].psize = 0
            THEN Result = 0 /\ Cursor = NULL
            ELSE IF StepNo <= obs[1].psize
            THEN /\ Result = 1
                 /\ stk[1][1].out = obs[1].pre[obs[1].psize + 1 - StepNo]
                 /\ Cursor = Chain[obs[1].psize + 1 - StepNo]
            ELSE Result = 0 /\ Cursor = head

\* the second step past the front of a list of three or more
C15_Witness ==
    /\ Returning("backward")
    /\ obs[1].psize >= 3
    /\ StepNo = obs[1].psize + 2
    /\ Result = 0
    /\ Cursor = head

\* the caller of ResetOps is between its reset and its step
AfterReset ==
    /\ Len(stk[1]) = 1
    /\ stk[1][1].fn \in ResetOps
    /\ stk[1][1].pc = "rs_mid"

\* C16: gll_iterator_reset from any cursor position sets the cursor to null,
\* returns 0 and leaves the list as it was; the next gll_iterator_forward
\* then returns the head element and the next gll_iterator_backward the
\* tail element.
C16_ResetRestarts ==
    /\ ~crashed
    /\ AfterReset => Cursor = NULL /\ ret[1].st = 0 /\ ListAsBefore
    /\ (Returning("reset_forward") /\ obs[1].psize > 0) =>
         /\ stk[1][1].loc = 0
         /\ Result = 1
         /\ stk[1][1].out = obs[1].pre[1]
         /\ Cursor = head
         /\ ListAsBefore
    /\ (Returning("reset_backward") /\ obs[1].psize > 0) =>
         /\ stk[1][1].loc = 0
         /\ Result = 1
         /\ stk[1][1].out = obs[1].pre[obs[1].psize]
         /\ Cursor = tail
         /\ ListAsBefore

\* a reset and a step forward on a list of three or more whose ends differ
C16_Witness ==
    /\ Returning("reset_forward")
    /\ obs[1].psize >= 3
    /\ obs[1].pre[1] # obs[1].pre[obs[1].psize]
    /\ Cursor = head
    /\ stk[1][1].out = obs[1].pre[1]

\* the caller of EndOps, outside any call
EndsOut == Len(stk[1]) = 1 /\ stk[1][1].fn = "ends"
\* the same with the results of the three queries it made after its last call
EndsChecked == EndsOut /\ stk[1][1].pc = "e_chk"

\* C17: after any sequence of gll_append, gll_push, gll_pop and gll_trim
\* calls on a new list, gll_size returns the number of append/push calls less
\* the number of pop/trim calls made on a non-empty list; a pop or trim on an
\* empty list leaves the list empty, and size never wraps below 0.
C17_SizeIsNetCount ==
    /\ ~crashed
    /\ EndsOut =>
         /\ size = stk[1][1].i
         /\ size <= cap
         /\ SizeOk
         /\ stk[1][1].bwd => size = 0 /\ head = NULL /\ tail = NULL
    /\ EndsChecked => stk[1][1].loc = stk[1][1].i

\* three elements counted after pushes, gll_size reporting 3
C17_Witness ==
    /\ EndsChecked
    /\ stk[1][1].i = 3
    /\ stk[1][1].loc = 3
    /\ Chain[1] > Chain[2]

\* C18 as stated: gll_size is 0 exactly when gll_peek reports 0, and exactly
\* when gll_peek_last reports 0.
C18_SizeZeroIffSentinel ==
    EndsChecked =>
        /\ (stk[1][1].loc = 0) <=> (stk[1][1].n = 0)
        /\ (stk[1][1].loc = 0) <=> (stk[1][1].out = 0)

\* C18: when gll_size is 0, gll_peek and gll_peek_last report 0; gll_peek
\* reports 0 exactly when the list is empty or its head element is 0, and
\* gll_peek_last exactly when the list is empty or its tail element is 0.
C18_SentinelOrZeroElement ==
    /\ ~crashed
    /\ EndsChecked =>
         /\ stk[1][1].loc = 0 => stk[1][1].n = 0 /\ stk[1][1].out = 0
         /\ (stk[1][1].n = 0) <=> (stk[1][1].loc = 0 \/ Elems[1] = 0)
         /\ (stk[1][1].out = 0) <=> (stk[1][1].loc = 0 \/ Elems[Len(Elems)] = 0)

\* a list of two whose head element is 0 and whose tail element is not:
\* gll_size reports 2, gll_peek 0 and gll_peek_last the tail element
C18_Witness ==
    /\ EndsChecked
    /\ stk[1][1].loc = 2
    /\ stk[1][1].n = 0
    /\ stk[1][1].out # 0

\* C23: gll_insert with index > size returns -1 and changes nothing: size,
\* sequence, head, tail and links are as before and the list lock is free.
C23_InsertOutOfRange ==
    /\ ~crashed
    /\ (Returning("insert") /\ obs[1].idx > obs[1].psize) =>
         /\ Result = -1
         /\ ListAsBefore
         /\ ElemsBack = obs[1].pre
         /\ lmtx = [owner |-> 0, count |-> 0]

\* an insert one past the size of a list of two or more has returned -1
C23_Witness ==
    /\ Returning("insert")
    /\ obs[1].psize >= 2
    /\ obs[1].idx = obs[1].psize + 1
    /\ Result = -1
    /\ Quiet

\* C24: gll_remove with index >= size (every index on an empty list) returns
\* 0 and leaves size, sequence, head and tail as they were.
C24_RemoveOutOfRange ==
    (Returning("remove") /\ obs[1].idx >= obs[1].psize) =>
        /\ Result = 0
        /\ ListAsBefore

\* C27: for every pair of int32_t values x, y the result of
\* gll_comparator_int32 is negative iff x < y, zero iff x = y and positive
\* iff x > y, pairs whose difference leaves the type's range included.
C27_Int32Contract ==
    Returning("comparator_int32") =>
        /\ (Result < 0) <=> (obs[1].idx < obs[1].val)
        /\ (Result = 0) <=> (obs[1].idx = obs[1].val)
        /\ (Result > 0) <=> (obs[1].idx > obs[1].val)

\* a call with a NULL reference is returning
NullReturning ==
    /\ Len(stk[1]) = 1
    /\ stk[1][1].fn \in NullOps
    /\ stk[1][1].pc = "ret"

\* C25: gll_append, gll_push, gll_insert, gll_clear, gll_destroy, gll_sort,
\* gll_iterator_destroy and gll_iterator_reset called with a NULL list or
\* iterator return -1, never 0, and change no state.
C25_NullReportsFailure ==
    NullReturning =>
        /\ Result = -1
        /\ ListAsBefore
        /\ lmtx = [owner |-> 0, count |-> 0]
        /\ \A i \in Iters : imtx[i] = 0

\* C26: when calloc fails inside gll_append, gll_push or gll_insert (the
\* node, or the internal iterator) no absent node or iterator is
\* dereferenced, and the call returns -1 with the list as before and the
\* lock released.
C26_AllocFailureReported ==
    /\ ~crashed
    /\ \A fn \in {"append", "push", "insert"} :
         (Returning(fn) /\ Result # 0) =>
             /\ Result = -1
             /\ ListAsBefore
             /\ lmtx = [owner |-> 0, count |-> 0]

\* thread t is at GLL_MUTEX_LOCK(iterator): about to take the iterator's
\* lock, or waiting for it
AtIterLock(t) == ~Idle(t) /\ Top(t).pc = "ilock"

\* C28 as stated: no thread acquires or waits for an iterator's lock while
\* it holds the list's lock, the internal steps of gll_find, gll_insert and
\* gll_remove included.
C28_IterThenListEverywhere ==
    \A t \in Threads : AtIterLock(t) => lmtx.owner # t

\* C28: a thread that acquires or waits for an iterator's lock while it
\* holds the list's lock does so only for the iterator its own call created
\* (the internal steps of gll_insert and gll_remove), whose lock is then
\* free; the lock of an iterator that callers share is taken only by a
\* thread that holds no list lock.
C28_ListThenOwnIterOnly ==
    \A t \in Threads :
        (AtIterLock(t) /\ lmtx.owner = t) =>
            /\ Top(t).it = PrivIt(t)
            /\ Top(t).it \notin SharedIts
            /\ imtx[Top(t).it] = 0
            /\ Len(stk[t]) > 1

\* thread 2, inside gll_insert or gll_remove with the list's lock, is about
\* to lock its internal iterator while thread 1 holds the shared iterator's
\* lock and waits for the list
C28_Witness ==
    /\ AtIterLock(2)
    /\ lmtx.owner = 2
    /\ imtx[100] = 1
    /\ ~Idle(1) /\ Top(1).pc = "lock"

\* the frames of thread t that are between GLL_MUTEX_LOCK(list) and
\* GLL_MUTEX_UNLOCK(list)
LockedFrames(t) ==
    {k \in 1..Len(stk[t]) :
        /\ stk[t][k].fn \notin NoLockOps \cup {"reset"}
        /\ ~IsWalkFn(stk[t][k].fn)
        /\ stk[t][k].pc \notin {"ilock", "lock", "iunlock", "ret", "null"}}

\* a step writes head, tail, size or a next or prev link
ChainWrite == listv' # listv \/ next' # next \/ prev' # prev

\* C29: every write to head, tail, size or a node's next/prev link is made
\* by a thread that holds the list's lock, and at most one thread holds the
\* lock at any time: a thread between lock and unlock is the owner, as many
\* times over as it has entered.
C29_ChainWritesUnderLock ==
    /\ [](\A t \in Threads :
            LockedFrames(t) # {} =>
                lmtx.owner = t /\ lmtx.count = Cardinality(LockedFrames(t)))
    /\ [][ChainWrite =>
            \E t \in Threads :
                /\ lmtx.owner = t
                /\ LockedFrames(t) # {}
                /\ stk'[t] # stk[t]
                /\ \A u \in Threads \ {t} : stk'[u] = stk[u]]_vars

\* thread 2 holds the list's lock twice over (gll_insert inside gll_push or
\* gll_append) and is about to write while thread 1 waits for the lock
C29_Witness ==
    /\ lmtx = [owner |-> 2, count |-> 2]
    /\ ~Idle(2) /\ Top(2).pc \in {"a1", "p1"}
    /\ ~Idle(1) /\ Top(1).pc = "lock"

\* C30: gll_clone is atomic with respect to another thread's push, append
\* or sort on the source (pop, trim, insert and remove likewise): the clone's sequence is
\* the source's sequence at one instant between the call and the return.
\* Thread 2 makes one call, so when it is outside it the source has had two
\* sequences at most: the one at gll_clone's call and the present one.
C30_CloneIsSnapshot ==
    (Returning("clone") /\ Idle(2)) =>
        \/ stk[1][1].out = obs[1].pre
        \/ stk[1][1].out = Elems

\* how often v occurs in the sequence s
Count(s, v) == Cardinality({k \in DOMAIN s : s[k] = v})

\* C22: with a deallocator set, gll_clear passes every stored value to it
\* exactly once (once per node of the list).  gll_pop, gll_trim and
\* gll_remove hold no call of it.
C22_ClearDeallocatesEach ==
    Returning("clear") =>
        \A v \in Values : Count(stk[1][1].out, v) = Count(obs[1].pre, v)

\* C21: a clone shares no node with its source, and calls of append, push,
\* pop, trim, insert, remove, sort and clear on one of the two lists leave
\* the size, the sequence and the links of the other (a list all of whose
\* nodes were allocated when the caller left it) as they were.
InTwo(pc) == ~crashed /\ ~Idle(1) /\ stk[1][1].fn = "two_lists" /\ stk[1][1].pc = pc
Other == View(stk[1][1].loc[1], stk[1][1].loc[2], stk[1][1].loc[3])
C21_CloneIndependent ==
    /\ (InTwo("t_use") /\ stk[1][1].i = 0 /\ Len(stk[1]) = 1)
          => Range(Chain) \cap Range(Other.fwd) = {}
    /\ (InTwo("t_use") /\ stk[1][1].idx.ok) => Other = stk[1][1].idx

\* C31: for an interior index gll_insert and gll_remove walk from the head
\* when index <= size/2 and from the tail otherwise; the walk ends with the
\* cursor on the node at position index after index + 1 forward steps or
\* size - index backward steps, at most min(index, size - index) + 1 steps.
WalkEnded == ~crashed /\ ~Idle(1) /\ IsWalkFn(Top(1).fn) /\ Top(1).pc = "w_done"
Interior ==
    /\ 0 < obs[1].idx
    /\ obs[1].idx < (IF obs[1].op = "insert" THEN obs[1].psize ELSE obs[1].psize - 1)
MinOf(a, b) == IF a <= b THEN a ELSE b
C31_HalfDistanceWalk ==
    /\ (Len(stk[1]) >= 2 /\ stk[1][1].fn \in {"insert", "remove"} /\ Interior)
          => IsWalkFn(stk[1][2].fn)
    /\ (WalkEnded /\ Interior) =>
         /\ Top(1).bwd = ~(obs[1].idx <= obs[1].psize \div 2)
         /\ icur[Top(1).it] = Chain[obs[1].idx + 1]
         /\ Top(1).n = (IF Top(1).bwd THEN obs[1].psize - obs[1].idx
                        ELSE obs[1].idx + 1)
         /\ Top(1).n <= MinOf(obs[1].idx, obs[1].psize - obs[1].idx) + 1

\* a removal has walked back from the tail over more than one node
C31_Witness ==
    /\ WalkEnded /\ Interior
    /\ Top(1).fn = "_gll_remove" /\ Top(1).bwd
    /\ Top(1).n = obs[1].psize - obs[1].idx
    /\ Top(1).n >= 2

====
